------------------------- MODULE OpenChannelProofs --------------------------
(***************************************************************************)
(* A read of the open-channel SSD returns the newest data, and the         *)
(* descriptors of its chunks tell what was done to the flash, for every    *)
(* geometry, every list of blocks a host may send, every number of         *)
(* commands at work and every duration of the flash operations.            *)
(***************************************************************************)
EXTENDS OpenChannel, SequenceLemmas, FiniteSetTheorems

Reading == {"pageRead", "read", "vectorRead"}
Writing == {"pageWrite", "write", "vectorWrite"}
Erasing == {"blockErase", "vectorReset"}

(***************************************************************************)
(* The types of what the proof is about; the entries, the mask and the     *)
(* data of a command may be anything.                                      *)
(***************************************************************************)
IsCommand(c) ==
  /\ c = [op |-> c.op, lbas |-> c.lbas, pc |-> c.pc, entries |-> c.entries,
          mask |-> c.mask, data |-> c.data]
  /\ c.op \in Reading \cup Writing \cup Erasing
  /\ c.lbas \in Seq(Blocks)
  /\ c.pc \in {"fetch", "core", "flash", "data", "answered"}

IsSequence(s) == \E S : s \in Seq(S)

TypesOK ==
  /\ IsSequence(cmds) /\ \A i \in DOMAIN cmds : IsCommand(cmds[i])
  /\ disk \in [Blocks -> Nat]
  /\ expected \in [Blocks -> Int]

(***************************************************************************)
(* The completion queue holds the commands that are in the flash, once     *)
(* each; and only reads and vector writes have data to move after that.    *)
(***************************************************************************)
QueueOK ==
  /\ \A r \in completionQueue : r.cmd \in DOMAIN cmds /\ cmds[r.cmd].pc = "flash"
  /\ \A r, s \in completionQueue : r.cmd = s.cmd => r = s
  /\ \A i \in DOMAIN cmds :
       cmds[i].pc = "data" => cmds[i].op \in Reading \cup {"vectorWrite"}

(***************************************************************************)
(* The host keeps its commands on different chunks.                        *)
(***************************************************************************)
Apart ==
  \A i, j \in Outstanding :
    i # j => ChunksOf(cmds[i].lbas) \cap ChunksOf(cmds[j].lbas) = {}

(***************************************************************************)
(* The disk holds what the host expects, but for blocks that a command is  *)
(* about to change; a write that stores its data early has stored it once  *)
(* it was fetched; and a read has got what the host expects, from the time *)
(* it takes its copy of the disk on.                                       *)
(***************************************************************************)
Changing(b) ==
  \E i \in Outstanding : cmds[i].op \in Writing \cup Erasing /\ b \in BlocksOf(cmds[i])

DiskAsExpected ==
  \A b \in Blocks : expected[b] # -1 /\ ~Changing(b) => disk[b] = expected[b]

StoredEarly ==
  \A i \in Outstanding :
    cmds[i].op \in {"pageWrite", "write"} /\ cmds[i].pc # "fetch"
      => \A b \in BlocksOf(cmds[i]) : disk[b] = i

HasCopied(c) ==
  \/ c.op = "pageRead" /\ c.pc \notin {"fetch", "answered"}
  \/ c.op \in {"read", "vectorRead"} /\ c.pc = "data"

CopiesRight ==
  \A i \in DOMAIN cmds :
    HasCopied(cmds[i]) =>
      \A k \in DOMAIN cmds[i].lbas :
        expected[cmds[i].lbas[k]] # -1
          => cmds[i].data[k] = expected[cmds[i].lbas[k]]

OCInv ==
  /\ TypesOK /\ QueueOK /\ Apart
  /\ DiskAsExpected /\ StoredEarly /\ CopiesRight

(***************************************************************************)
(* The commands are numbered from one.                                     *)
(***************************************************************************)
LEMMA DomainOfSequence ==
  ASSUME NEW s, IsSequence(s)
  PROVE  Len(s) \in Nat /\ DOMAIN s = 1 .. Len(s)
BY DEF IsSequence

(***************************************************************************)
(* One more command, and one command that is replaced.                     *)
(***************************************************************************)
LEMMA AppendCommand ==
  ASSUME NEW s, IsSequence(s), NEW x
  PROVE  /\ IsSequence(Append(s, x))
         /\ DOMAIN Append(s, x) = DOMAIN s \cup {Len(s) + 1}
         /\ Len(s) + 1 \notin DOMAIN s
         /\ \A i \in DOMAIN s : Append(s, x)[i] = s[i]
         /\ Append(s, x)[Len(s) + 1] = x
<1>1. PICK S : s \in Seq(S)
  BY DEF IsSequence
<1>2. s \in Seq(S \cup {x}) /\ x \in S \cup {x}
  BY <1>1
<1>3. Append(s, x) \in Seq(S \cup {x}) /\ Len(Append(s, x)) = Len(s) + 1
      /\ Len(s) \in Nat /\ DOMAIN s = 1 .. Len(s)
      /\ DOMAIN Append(s, x) = 1 .. Len(s) + 1
  BY <1>2
<1>4. \A i \in 1 .. Len(s) + 1 :
        Append(s, x)[i] = IF i <= Len(s) THEN s[i] ELSE x
  BY <1>2
<1> QED BY <1>3, <1>4 DEF IsSequence

(***************************************************************************)
(* A command that is replaced.                                             *)
(***************************************************************************)
LEMMA ReplaceCommand ==
  ASSUME NEW s, IsSequence(s), NEW i \in DOMAIN s, NEW x,
         NEW t, t = [s EXCEPT ![i] = x]
  PROVE  /\ IsSequence(t) /\ DOMAIN t = DOMAIN s /\ t[i] = x
         /\ \A j \in DOMAIN s : j # i => t[j] = s[j]
<1>1. PICK S : s \in Seq(S)
  BY DEF IsSequence
<1>2. s \in Seq(S \cup {x})
  BY <1>1
<1>3. t \in Seq(S \cup {x})
  BY <1>2
<1> QED BY <1>2, <1>3 DEF IsSequence

(***************************************************************************)
(* The chunks of a command are those of its blocks.                        *)
(***************************************************************************)
LEMMA BlocksInChunks ==
  ASSUME NEW c, IsCommand(c)
  PROVE  /\ BlocksOf(c) \subseteq Blocks
         /\ \A b \in BlocksOf(c) : parseLBA(b)[1] \in ChunksOf(c.lbas)
         /\ \A k \in DOMAIN c.lbas : c.lbas[k] \in BlocksOf(c)
         /\ \A b \in BlocksOf(c) : \E k \in DOMAIN c.lbas : c.lbas[k] = b
BY DEF IsCommand, BlocksOf, ChunksOf, Range

(***************************************************************************)
(* Two commands at work share no block.                                    *)
(***************************************************************************)
LEMMA BlocksApart ==
  ASSUME TypesOK, Apart, NEW i \in Outstanding, NEW j \in Outstanding, i # j,
         NEW b, b \in BlocksOf(cmds[i])
  PROVE  b \notin BlocksOf(cmds[j]) /\ parseLBA(b)[1] \notin ChunksOf(cmds[j].lbas)
<1>1. IsCommand(cmds[i]) /\ IsCommand(cmds[j])
  BY DEF TypesOK, Outstanding
<1>2. parseLBA(b)[1] \in ChunksOf(cmds[i].lbas)
  BY <1>1, BlocksInChunks
<1>3. parseLBA(b)[1] \notin ChunksOf(cmds[j].lbas)
  BY <1>2 DEF Apart
<1> QED BY <1>1, <1>3, BlocksInChunks

(***************************************************************************)
(* The disk holds what the host expects in the blocks of a read at work.   *)
(***************************************************************************)
LEMMA ReadsExpected ==
  ASSUME OCInv, NEW i \in Outstanding, cmds[i].op \in Reading,
         NEW b \in BlocksOf(cmds[i]), expected[b] # -1
  PROVE  disk[b] = expected[b]
<1>1. b \in Blocks
  BY BlocksInChunks DEF OCInv, TypesOK, Outstanding
<1>2. ~Changing(b)
  <2> SUFFICES ASSUME NEW j \in Outstanding, b \in BlocksOf(cmds[j]),
                      cmds[j].op \in Writing \cup Erasing
               PROVE  FALSE
    BY DEF Changing
  <2>1. i # j
    BY DEF Reading, Writing, Erasing
  <2> QED BY <2>1, BlocksApart DEF OCInv
<1> QED BY <1>1, <1>2 DEF OCInv, DiskAsExpected

(***************************************************************************)
(* The invariant holds while there are no commands.                        *)
(***************************************************************************)
LEMMA InitOCInv == Init => OCInv
<1> SUFFICES ASSUME Init PROVE OCInv
  OBVIOUS
<1>1. cmds = <<>> /\ DOMAIN cmds = {} /\ Outstanding = {}
  BY DEF Init, Outstanding
<1>2. IsSequence(cmds)
  <2>1. cmds \in Seq({})
    BY <1>1
  <2> QED BY <2>1 DEF IsSequence
<1>3. TypesOK
  BY <1>1, <1>2 DEF Init, TypesOK
<1>4. QueueOK
  BY <1>1 DEF Init, QueueOK
<1>5. Apart /\ StoredEarly /\ CopiesRight
  BY <1>1 DEF Apart, StoredEarly, CopiesRight
<1>6. DiskAsExpected
  BY DEF Init, DiskAsExpected
<1> QED BY <1>3, <1>4, <1>5, <1>6 DEF OCInv

(***************************************************************************)
(* Command i goes on from one stage to another, keeping its blocks; the    *)
(* others stay as they are.                                                *)
(***************************************************************************)
Goes(i, x) ==
  /\ i \in Outstanding
  /\ cmds' = [cmds EXCEPT ![i] = x]
  /\ IsCommand(x) /\ x.op = cmds[i].op /\ x.lbas = cmds[i].lbas

(***************************************************************************)
(* What Goes changes: one command, which stays at work.                    *)
(***************************************************************************)
LEMMA GoesFacts ==
  ASSUME TypesOK, NEW i, NEW x, Goes(i, x), x.pc # "answered"
  PROVE  /\ IsSequence(cmds') /\ DOMAIN cmds' = DOMAIN cmds
         /\ \A j \in DOMAIN cmds' : IsCommand(cmds'[j])
         /\ cmds'[i] = x /\ i \in DOMAIN cmds
         /\ \A j \in DOMAIN cmds : j # i => cmds'[j] = cmds[j]
         /\ \A j \in DOMAIN cmds : cmds'[j].op = cmds[j].op /\ cmds'[j].lbas = cmds[j].lbas
         /\ Outstanding' = Outstanding
<1>1. IsSequence(cmds) /\ i \in DOMAIN cmds /\ cmds' = [cmds EXCEPT ![i] = x]
  BY DEF TypesOK, Goes, Outstanding
<1>2. /\ IsSequence(cmds') /\ DOMAIN cmds' = DOMAIN cmds /\ cmds'[i] = x
      /\ \A j \in DOMAIN cmds : j # i => cmds'[j] = cmds[j]
  BY <1>1, ReplaceCommand
<1>3. \A j \in DOMAIN cmds' : IsCommand(cmds'[j])
  BY <1>2 DEF TypesOK, Goes
<1>4. \A j \in DOMAIN cmds : cmds'[j].op = cmds[j].op /\ cmds'[j].lbas = cmds[j].lbas
  BY <1>2 DEF Goes
<1>5. Outstanding' = Outstanding
  BY <1>1, <1>2 DEF Outstanding, Goes
<1> QED BY <1>1, <1>2, <1>3, <1>4, <1>5

(***************************************************************************)
(* The step of one command that is not answered by it: it may store its    *)
(* own blocks, if it is a write or an erase that was just fetched, and     *)
(* take its copy of them, if it is a read.                                 *)
(***************************************************************************)
LEMMA StepKeeps ==
  ASSUME OCInv, NEW i, NEW x, Goes(i, x), x.pc \in {"core", "flash"},
         cmds[i].pc \in {"fetch", "core"}, expected' = expected,
         QueueOK', disk' \in [Blocks -> Nat],
         \A b \in Blocks : disk'[b] = disk[b] \/
           (b \in BlocksOf(cmds[i]) /\ cmds[i].op \in Writing \cup Erasing
              /\ cmds[i].pc = "fetch"),
         cmds[i].pc = "fetch" /\ cmds[i].op \in {"pageWrite", "write"}
           => \A b \in BlocksOf(cmds[i]) : disk'[b] = i,
         cmds[i].op = "pageRead" =>
           \/ cmds[i].pc = "core" /\ x.data = cmds[i].data
           \/ x.data = Data(cmds[i])
  PROVE  OCInv'
<1> USE DEF OCInv
<1>1. /\ IsSequence(cmds') /\ DOMAIN cmds' = DOMAIN cmds
      /\ \A j \in DOMAIN cmds' : IsCommand(cmds'[j])
      /\ cmds'[i] = x /\ i \in DOMAIN cmds
      /\ \A j \in DOMAIN cmds : j # i => cmds'[j] = cmds[j]
      /\ \A j \in DOMAIN cmds : cmds'[j].op = cmds[j].op /\ cmds'[j].lbas = cmds[j].lbas
      /\ Outstanding' = Outstanding
  BY GoesFacts
<1>2. /\ i \in Outstanding /\ Outstanding \subseteq DOMAIN cmds
      /\ x.op = cmds[i].op /\ x.lbas = cmds[i].lbas
  BY DEF Goes, Outstanding
<1>3. TypesOK'
  BY <1>1 DEF TypesOK
<1>4. Apart'
  BY <1>1, <1>2 DEF Apart
<1>5. \A j \in DOMAIN cmds : BlocksOf(cmds'[j]) = BlocksOf(cmds[j])
  BY <1>1 DEF BlocksOf
<1>6. \A b : Changing(b)' <=> Changing(b)
  BY <1>1, <1>2, <1>5 DEF Changing
<1>7. DiskAsExpected'
  <2> SUFFICES ASSUME NEW b \in Blocks, expected[b] # -1, ~Changing(b)
               PROVE  disk'[b] = expected[b]
    BY <1>6 DEF DiskAsExpected
  <2>1. ~(b \in BlocksOf(cmds[i]) /\ cmds[i].op \in Writing \cup Erasing)
    BY <1>2 DEF Changing
  <2> QED BY <2>1 DEF DiskAsExpected
<1>8. StoredEarly'
  <2> SUFFICES ASSUME NEW j \in Outstanding, cmds'[j].op \in {"pageWrite", "write"},
                      cmds'[j].pc # "fetch", NEW b \in BlocksOf(cmds[j])
               PROVE  disk'[b] = j
    BY <1>1, <1>2, <1>5 DEF StoredEarly
  <2>1. b \in Blocks
    BY <1>2, BlocksInChunks DEF TypesOK
  <2>2. CASE j = i
    <3>1. cmds[i].op \in {"pageWrite", "write"}
      BY <1>1, <1>2, <2>2
    <3>2. CASE cmds[i].pc = "fetch"
      BY <2>2, <3>1, <3>2
    <3>3. CASE cmds[i].pc # "fetch"
      <4>1. disk'[b] = disk[b]
        BY <2>1, <3>3
      <4> QED BY <2>2, <3>1, <3>3, <4>1 DEF StoredEarly
    <3> QED BY <3>2, <3>3
  <2>3. CASE j # i
    <3>1. b \notin BlocksOf(cmds[i])
      BY <1>2, <2>3, BlocksApart
    <3>2. disk'[b] = disk[b] /\ cmds'[j] = cmds[j]
      BY <1>1, <1>2, <2>1, <2>3, <3>1
    <3> QED BY <3>2 DEF StoredEarly
  <2> QED BY <2>2, <2>3
<1>9. CopiesRight'
  <2> SUFFICES ASSUME NEW j \in DOMAIN cmds, HasCopied(cmds'[j]),
                      NEW k \in DOMAIN cmds[j].lbas,
                      expected[cmds[j].lbas[k]] # -1
               PROVE  cmds'[j].data[k] = expected[cmds[j].lbas[k]]
    BY <1>1 DEF CopiesRight
  <2>1. CASE j # i
    BY <1>1, <2>1 DEF CopiesRight
  <2>2. CASE j = i
    <3>1. cmds[i].op = "pageRead"
      BY <1>1, <1>2, <2>2 DEF HasCopied
    <3>2. CASE cmds[i].pc = "core" /\ x.data = cmds[i].data
      <4>1. HasCopied(cmds[i])
        BY <3>1, <3>2 DEF HasCopied
      <4> QED BY <1>1, <2>2, <3>2, <4>1 DEF CopiesRight
    <3>3. CASE x.data = Data(cmds[i])
      <4>1. x.data[k] = disk[cmds[i].lbas[k]]
        BY <2>2, <3>3 DEF Data
      <4>2. cmds[i].lbas[k] \in BlocksOf(cmds[i])
        BY <1>2, <2>2, BlocksInChunks DEF TypesOK
      <4>3. disk[cmds[i].lbas[k]] = expected[cmds[i].lbas[k]]
        BY <1>2, <2>2, <3>1, <4>2, ReadsExpected DEF Reading
      <4> QED BY <1>1, <2>2, <4>1, <4>3
    <3> QED BY <3>1, <3>2, <3>3
  <2> QED BY <2>1, <2>2
<1> QED BY <1>3, <1>4, <1>7, <1>8, <1>9

(***************************************************************************)
(* A command some of whose fields are replaced is a command.               *)
(***************************************************************************)
WithEntries(c, e, p) == [c EXCEPT !.entries = e, !.pc = p]
WithMask(c, e, n) == [c EXCEPT !.pc = "core", !.mask = n, !.entries = e]
WithData(c, p, n) == [c EXCEPT !.pc = p, !.data = n]

(***************************************************************************)
(* Its entries and its stage.                                              *)
(***************************************************************************)
LEMMA EntriesReplaced ==
  ASSUME NEW c, IsCommand(c), NEW e, NEW p \in {"core", "flash", "data", "answered"},
         NEW x, x = WithEntries(c, e, p)
  PROVE  /\ IsCommand(x) /\ x.op = c.op /\ x.lbas = c.lbas
         /\ x.pc = p /\ x.data = c.data /\ x.entries = e
<1>1. PICK o, l, q, f, m, d :
        c = [op |-> o, lbas |-> l, pc |-> q, entries |-> f, mask |-> m, data |-> d]
  BY DEF IsCommand
<1>2. x = [op |-> o, lbas |-> l, pc |-> p, entries |-> e, mask |-> m, data |-> d]
  BY ONLY <1>1, x = WithEntries(c, e, p) DEF WithEntries
<1>3. x.op = o /\ x.lbas = l /\ x.pc = p /\ x.entries = e /\ x.mask = m /\ x.data = d
  BY ONLY <1>2
<1>4. c.op = o /\ c.lbas = l /\ c.data = d
  BY ONLY <1>1
<1> QED BY <1>2, <1>3, <1>4 DEF IsCommand

(***************************************************************************)
(* Its entries and its mask, when it begins to wait for a core.            *)
(***************************************************************************)
LEMMA MaskReplaced ==
  ASSUME NEW c, IsCommand(c), NEW e, NEW n, NEW x,
         x = WithMask(c, e, n)
  PROVE  /\ IsCommand(x) /\ x.op = c.op /\ x.lbas = c.lbas
         /\ x.pc = "core" /\ x.data = c.data /\ x.entries = e
<1>1. PICK o, l, q, f, m, d :
        c = [op |-> o, lbas |-> l, pc |-> q, entries |-> f, mask |-> m, data |-> d]
  BY DEF IsCommand
<1>2. x = [op |-> o, lbas |-> l, pc |-> "core", entries |-> e, mask |-> n, data |-> d]
  BY ONLY <1>1, x = WithMask(c, e, n) DEF WithMask
<1>3. x.op = o /\ x.lbas = l /\ x.pc = "core" /\ x.entries = e /\ x.mask = n /\ x.data = d
  BY ONLY <1>2
<1>4. c.op = o /\ c.lbas = l /\ c.data = d
  BY ONLY <1>1
<1> QED BY <1>2, <1>3, <1>4 DEF IsCommand

(***************************************************************************)
(* Its stage and its data.                                                 *)
(***************************************************************************)
LEMMA DataReplaced ==
  ASSUME NEW c, IsCommand(c), NEW p \in {"fetch", "core", "flash", "data"},
         NEW x, NEW n, x = WithData(c, p, n)
  PROVE  /\ IsCommand(x) /\ x.op = c.op /\ x.lbas = c.lbas
         /\ x.pc = p /\ x.data = n
<1>1. PICK o, l, q, f, m, d :
        c = [op |-> o, lbas |-> l, pc |-> q, entries |-> f, mask |-> m, data |-> d]
  BY DEF IsCommand
<1>2. x = [op |-> o, lbas |-> l, pc |-> p, entries |-> f, mask |-> m, data |-> n]
  BY ONLY <1>1, x = WithData(c, p, n) DEF WithData
<1>3. x.op = o /\ x.lbas = l /\ x.pc = p /\ x.entries = f /\ x.mask = m /\ x.data = n
  BY ONLY <1>2
<1>4. c.op = o /\ c.lbas = l /\ c.data = d
  BY ONLY <1>1
<1> QED BY <1>2, <1>3, <1>4 DEF IsCommand

(***************************************************************************)
(* Command i goes to the flash, with its own blocks stored if it is a      *)
(* write or an erase that was just fetched, and copied if it is a read.    *)
(***************************************************************************)
LEMMA ToFlashKeeps ==
  ASSUME OCInv, NEW i \in DOMAIN cmds, cmds[i].pc \in {"fetch", "core"},
         NEW c, IsCommand(c), c.op = cmds[i].op, c.lbas = cmds[i].lbas,
         NEW entries, ToFlash(i, c, entries), expected' = expected,
         disk' \in [Blocks -> Nat],
         \A b \in Blocks : disk'[b] = disk[b] \/
           (b \in BlocksOf(cmds[i]) /\ cmds[i].op \in Writing \cup Erasing
              /\ cmds[i].pc = "fetch"),
         cmds[i].pc = "fetch" /\ cmds[i].op \in {"pageWrite", "write"}
           => \A b \in BlocksOf(cmds[i]) : disk'[b] = i,
         cmds[i].op = "pageRead" =>
           \/ cmds[i].pc = "core" /\ c.data = cmds[i].data
           \/ c.data = Data(cmds[i])
  PROVE  OCInv'
<1>0. PICK x : x = WithEntries(c, entries, "flash")
  OBVIOUS
<1>1. /\ IsCommand(x) /\ x.op = cmds[i].op /\ x.lbas = cmds[i].lbas
      /\ x.pc = "flash" /\ x.data = c.data
  BY <1>0, EntriesReplaced
<1>2. Goes(i, x)
  <2>1. cmds' = [cmds EXCEPT ![i] = x]
    BY <1>0 DEF ToFlash, WithEntries
  <2>2. i \in Outstanding
    BY DEF Outstanding
  <2> QED BY <1>1, <2>1, <2>2 DEF Goes
<1>3. /\ DOMAIN cmds' = DOMAIN cmds /\ cmds'[i] = x
      /\ \A j \in DOMAIN cmds : j # i => cmds'[j] = cmds[j]
  BY <1>1, <1>2, GoesFacts DEF OCInv
<1>4. PICK d : completionQueue' = completionQueue \cup {[cmd |-> i, finishedAt |-> now + d]}
  BY DEF ToFlash
<1>5. QueueOK'
  <2>1. \A r \in completionQueue : r.cmd \in DOMAIN cmds /\ r.cmd # i
    BY DEF OCInv, QueueOK
  <2>2. \A r \in completionQueue' : r.cmd \in DOMAIN cmds' /\ cmds'[r.cmd].pc = "flash"
    BY <1>1, <1>3, <1>4, <2>1 DEF OCInv, QueueOK
  <2>3. \A r, s \in completionQueue' : r.cmd = s.cmd => r = s
    BY <1>4, <2>1 DEF OCInv, QueueOK
  <2>4. \A j \in DOMAIN cmds' :
          cmds'[j].pc = "data" => cmds'[j].op \in Reading \cup {"vectorWrite"}
    BY <1>1, <1>3 DEF OCInv, QueueOK
  <2> QED BY <2>2, <2>3, <2>4 DEF QueueOK
<1> QED BY <1>1, <1>2, <1>5, StepKeeps

(***************************************************************************)
(* Without an effect on the disk and on copies, command i waits for a      *)
(* core; a write by range has stored its blocks before.                    *)
(***************************************************************************)
LEMMA WaitForCoreKeeps ==
  ASSUME OCInv, NEW i \in DOMAIN cmds, cmds[i].pc = "fetch",
         cmds[i].op \notin {"pageRead", "pageWrite"},
         NEW entries, NEW mask, WaitForCore(i, entries, mask),
         disk' = IF cmds[i].op = "write" THEN StoredAll(i, i) ELSE disk
  PROVE  OCInv'
<1> DEFINE e == Accepted(entries, mask)
<1> HIDE DEF e
<1>9. PICK x : x = WithMask(cmds[i], e, mask)
  OBVIOUS
<1>0. /\ IsCommand(cmds[i]) /\ IsSequence(cmds) /\ disk \in [Blocks -> Nat]
      /\ i \in Nat
  BY DomainOfSequence DEF OCInv, TypesOK
<1>1. cmds' = [cmds EXCEPT ![i] = x]
  BY <1>9 DEF WaitForCore, WithMask, e
<1>2. /\ IsCommand(x) /\ x.op = cmds[i].op /\ x.lbas = cmds[i].lbas /\ x.pc = "core"
  BY <1>0, <1>9, MaskReplaced
<1>3. Goes(i, x)
  BY <1>1, <1>2 DEF Goes, Outstanding
<1>4. /\ DOMAIN cmds' = DOMAIN cmds /\ cmds'[i] = x
      /\ \A j \in DOMAIN cmds : j # i => cmds'[j] = cmds[j]
  BY <1>2, <1>3, GoesFacts DEF OCInv
<1>5. QueueOK'
  <2>1. \A r \in completionQueue : r.cmd \in DOMAIN cmds /\ r.cmd # i
    BY DEF OCInv, QueueOK
  <2>2. completionQueue' = completionQueue
    BY DEF WaitForCore
  <2> QED BY <1>2, <1>4, <2>1, <2>2 DEF OCInv, QueueOK
<1>6. /\ disk' \in [Blocks -> Nat]
      /\ \A b \in Blocks : disk'[b] = disk[b] \/
           (b \in BlocksOf(cmds[i]) /\ cmds[i].op \in Writing \cup Erasing)
      /\ cmds[i].op = "write" => \A b \in BlocksOf(cmds[i]) : disk'[b] = i
  <2>1. CASE cmds[i].op = "write"
    <3>1. disk' = StoredAll(i, i) /\ BlocksOf(cmds[i]) \subseteq Blocks
      BY <2>1, <1>0, BlocksInChunks
    <3> QED BY <1>0, <2>1, <3>1 DEF StoredAll, Writing
  <2>2. CASE cmds[i].op # "write"
    BY <1>0, <2>2
  <2> QED BY <2>1, <2>2
<1>7. expected' = expected
  BY DEF WaitForCore
<1> QED BY <1>2, <1>3, <1>5, <1>6, <1>7, StepKeeps

(***************************************************************************)
(* What the host knows of a block once these commands are answered.        *)
(***************************************************************************)
LEMMA LearnFacts ==
  ASSUME OCInv, NEW A, A \subseteq Outstanding
  PROVE  /\ Learn(A) \in [Blocks -> Int]
         /\ \A b \in Blocks : Learn(A)[b] # -1 =>
              /\ \A i \in A : b \in BlocksOf(cmds[i])
                                => cmds[i].mask = {} /\ cmds[i].op \notin Erasing
              /\ \/ \E w \in A : cmds[w].op \in Writing /\ b \in BlocksOf(cmds[w])
                               /\ Learn(A)[b] = w
                 \/ /\ \A w \in A : cmds[w].op \in Writing => b \notin BlocksOf(cmds[w])
                    /\ Learn(A)[b] = expected[b]
<1> DEFINE Unknown(b) ==
             \/ \E i \in A : cmds[i].mask # {} /\ b \in BlocksOf(cmds[i])
             \/ \E i \in {j \in A : cmds[j].op \in {"blockErase", "vectorReset"}} :
                  parseLBA(b)[1] \in ChunksOf(cmds[i].lbas)
           Writers(b) == {i \in {j \in A : cmds[j].op \in {"pageWrite", "write", "vectorWrite"}} :
                            b \in BlocksOf(cmds[i])}
<1>1. Learn(A) = [b \in Blocks |->
                    IF Unknown(b) THEN -1
                    ELSE IF Writers(b) # {} THEN Max(Writers(b)) ELSE expected[b]]
  BY DEF Learn
<1>2. /\ Outstanding \subseteq 1 .. Len(cmds) /\ Len(cmds) \in Nat
      /\ \A i \in Outstanding : IsCommand(cmds[i])
  BY DomainOfSequence DEF OCInv, TypesOK, Outstanding
<1>3. ASSUME NEW b, Writers(b) # {}
      PROVE  Max(Writers(b)) \in Writers(b) /\ Max(Writers(b)) \in Int
  <2>1. Writers(b) \subseteq 1 .. Len(cmds)
    BY <1>2
  <2> HIDE DEF Writers
  <2> QED BY <1>2, <1>3, <2>1, MaxLemma
<1>4. ASSUME NEW b, ~Unknown(b), NEW i \in A, b \in BlocksOf(cmds[i])
      PROVE  cmds[i].mask = {} /\ cmds[i].op \notin Erasing
  <2>1. parseLBA(b)[1] \in ChunksOf(cmds[i].lbas)
    BY <1>2, <1>4, BlocksInChunks
  <2> QED BY <1>4, <2>1 DEF Erasing
<1>5. ASSUME NEW b
      PROVE  /\ \A w \in Writers(b) : w \in A /\ cmds[w].op \in Writing
                                      /\ b \in BlocksOf(cmds[w])
             /\ Writers(b) = {} =>
                  \A w \in A : cmds[w].op \in Writing => b \notin BlocksOf(cmds[w])
  BY DEF Writing
<1> HIDE DEF Unknown, Writers
<1>6. Learn(A) \in [Blocks -> Int]
  BY <1>1, <1>3 DEF OCInv, TypesOK
<1>7. ASSUME NEW b \in Blocks, Learn(A)[b] # -1
      PROVE  /\ ~Unknown(b)
             /\ Learn(A)[b] = IF Writers(b) # {} THEN Max(Writers(b)) ELSE expected[b]
  BY <1>1, <1>7
<1> QED BY <1>3, <1>4, <1>5, <1>6, <1>7

(***************************************************************************)
(* Commands are answered: what they stored is what the host expects now,   *)
(* and what it knows of the blocks of the others stays or is forgotten.    *)
(***************************************************************************)
LEMMA AnswersKeep ==
  ASSUME OCInv, NEW A, A \subseteq Outstanding, expected' = Learn(A),
         Outstanding' = Outstanding \ A, QueueOK',
         IsSequence(cmds'), DOMAIN cmds' = DOMAIN cmds,
         \A j \in DOMAIN cmds : IsCommand(cmds'[j]),
         \A j \in DOMAIN cmds : cmds'[j].op = cmds[j].op /\ cmds'[j].lbas = cmds[j].lbas,
         disk' \in [Blocks -> Nat],
         \A b \in Blocks : disk'[b] = disk[b] \/
           \E i \in A : cmds[i].op \in Writing /\ b \in BlocksOf(cmds[i]),
         \A i \in A : cmds[i].op \in Writing /\ cmds[i].mask = {}
           => \A b \in BlocksOf(cmds[i]) : disk'[b] = i,
         \A j \in Outstanding \ A : cmds'[j].pc = "fetch" <=> cmds[j].pc = "fetch",
         \A j \in DOMAIN cmds : HasCopied(cmds'[j]) =>
           /\ j \in Outstanding \ A
           /\ \/ HasCopied(cmds[j]) /\ cmds'[j].data = cmds[j].data
              \/ cmds'[j].data = Data(cmds[j])
  PROVE  OCInv'
<1> USE DEF OCInv
<1>1. Outstanding \subseteq DOMAIN cmds
  BY DEF Outstanding
<1>2. TypesOK'
  BY LearnFacts DEF TypesOK
<1>3. Apart'
  BY <1>1 DEF Apart
<1>4. \A j \in DOMAIN cmds : BlocksOf(cmds'[j]) = BlocksOf(cmds[j])
                            /\ BlocksOf(cmds[j]) \subseteq Blocks
  BY BlocksInChunks DEF BlocksOf, TypesOK
\* The blocks of a command that is not answered.
<1>5. ASSUME NEW j \in Outstanding \ A, NEW b \in BlocksOf(cmds[j])
      PROVE  disk'[b] = disk[b] /\ (expected'[b] # -1 => expected'[b] = expected[b])
  <2>1. b \in Blocks
    BY <1>1, <1>4
  <2>2. \A i \in A : b \notin BlocksOf(cmds[i])
    BY BlocksApart
  <2> QED BY <2>1, <2>2, LearnFacts
<1>6. DiskAsExpected'
  <2> SUFFICES ASSUME NEW b \in Blocks, expected'[b] # -1, ~Changing(b)'
               PROVE  disk'[b] = expected'[b]
    BY DEF DiskAsExpected
  <2>1. \A i \in A : b \in BlocksOf(cmds[i])
                     => cmds[i].mask = {} /\ cmds[i].op \notin Erasing
    BY LearnFacts
  <2>2. CASE \E w \in A : cmds[w].op \in Writing /\ b \in BlocksOf(cmds[w])
                         /\ expected'[b] = w
    BY <2>1, <2>2
  <2>3. CASE /\ \A w \in A : cmds[w].op \in Writing => b \notin BlocksOf(cmds[w])
             /\ expected'[b] = expected[b]
    <3>1. ~Changing(b)
      <4> SUFFICES ASSUME NEW i \in Outstanding, b \in BlocksOf(cmds[i]),
                          cmds[i].op \in Writing \cup Erasing
                   PROVE  FALSE
        BY DEF Changing
      <4>1. i \in A
        BY <1>1, <1>4 DEF Changing
      <4> QED BY <2>1, <2>3, <4>1
    <3>2. disk'[b] = disk[b]
      BY <2>3
    <3> QED BY <2>3, <3>1, <3>2 DEF DiskAsExpected
  <2> QED BY <2>2, <2>3, LearnFacts
<1>7. StoredEarly'
  <2> SUFFICES ASSUME NEW j \in Outstanding \ A,
                      cmds[j].op \in {"pageWrite", "write"}, cmds[j].pc # "fetch",
                      NEW b \in BlocksOf(cmds[j])
               PROVE  disk'[b] = j
    BY <1>1, <1>4 DEF StoredEarly
  <2> QED BY <1>5 DEF StoredEarly
<1>8. CopiesRight'
  <2> SUFFICES ASSUME NEW j \in DOMAIN cmds, HasCopied(cmds'[j]),
                      NEW k \in DOMAIN cmds[j].lbas,
                      expected'[cmds[j].lbas[k]] # -1
               PROVE  cmds'[j].data[k] = expected'[cmds[j].lbas[k]]
    BY DEF CopiesRight
  <2> DEFINE b == cmds[j].lbas[k]
  <2>1. j \in Outstanding \ A /\ b \in BlocksOf(cmds[j])
    BY BlocksInChunks DEF TypesOK
  <2>2. expected'[b] = expected[b] /\ expected[b] # -1
    BY <1>5, <2>1
  <2>3. CASE HasCopied(cmds[j]) /\ cmds'[j].data = cmds[j].data
    BY <2>2, <2>3 DEF CopiesRight
  <2>4. CASE cmds'[j].data = Data(cmds[j])
    <3>1. cmds[j].op \in Reading
      BY DEF HasCopied, Reading
    <3>2. disk[b] = expected[b]
      BY <2>1, <2>2, <3>1, ReadsExpected
    <3>3. cmds'[j].data[k] = disk[b]
      BY <2>4 DEF Data
    <3> QED BY <2>2, <3>2, <3>3
  <2> QED BY <2>3, <2>4
<1> QED BY <1>2, <1>3, <1>6, <1>7, <1>8

(***************************************************************************)
(* A range of blocks is a sequence of blocks.                              *)
(***************************************************************************)
LEMMA RunOfBlocks ==
  ASSUME NEW r \in Ranges
  PROVE  Run(r[1], r[1] + r[2] - 1) \in Seq(Blocks)
<1>1. r[1] \in Nat /\ r[2] \in Nat /\ r[1] + r[2] <= Chunks * ChunkSize
  BY HostAssumption
<1>2. Chunks * ChunkSize \in Nat
  <2>1. Pages * WriteSize \in Nat
    BY OpenChannelAssumption
  <2> QED BY <2>1, OpenChannelAssumption DEF ChunkSize
<1>3. Max({0, r[2]}) = r[2]
  BY <1>1 DEF Max
<1>4. (r[1] + r[2] - 1) - r[1] + 1 = r[2]
  BY <1>1
<1>5. Run(r[1], r[1] + r[2] - 1) = [i \in 1 .. r[2] |-> r[1] + i - 1]
  BY <1>3, <1>4 DEF Run
<1>6. \A i \in 1 .. r[2] : r[1] + i - 1 \in Blocks
  <2> DEFINE n == Chunks * ChunkSize
  <2>1. Blocks = 0 .. n - 1 /\ n \in Nat /\ r[1] + r[2] <= n
    BY <1>1, <1>2 DEF Blocks
  <2> HIDE DEF n
  <2> QED BY <1>1, <2>1
<1> QED BY <1>1, <1>5, <1>6

(***************************************************************************)
(* A new command is on chunks of its own.                                  *)
(***************************************************************************)
LEMMA SubmitKeeps ==
  ASSUME OCInv, NEW op \in Reading \cup Writing \cup Erasing, NEW lbas \in Seq(Blocks),
         Submit(op, lbas)
  PROVE  OCInv'
<1> USE DEF OCInv
<1>1. PICK x : x = [op |-> op, lbas |-> lbas, pc |-> "fetch", entries |-> <<>>,
                    mask |-> {}, data |-> <<>>]
  OBVIOUS
<1>2. IsCommand(x) /\ x.op = op /\ x.lbas = lbas /\ x.pc = "fetch"
  BY <1>1 DEF IsCommand
<1>3. /\ cmds' = Append(cmds, x) /\ ChunksOf(lbas) \cap BusyChunks = {}
      /\ UNCHANGED <<disk, completionQueue, expected>>
  BY <1>1 DEF Submit, Allowed
<1> DEFINE n == Len(cmds) + 1
<1>4. /\ IsSequence(cmds') /\ DOMAIN cmds' = DOMAIN cmds \cup {n} /\ n \notin DOMAIN cmds
      /\ \A i \in DOMAIN cmds : cmds'[i] = cmds[i]
      /\ cmds'[n] = x
  BY <1>3, AppendCommand DEF TypesOK
<1> HIDE DEF n
<1>5. /\ Outstanding' = Outstanding \cup {n} /\ Outstanding \subseteq DOMAIN cmds
      /\ n \notin Outstanding
  BY <1>2, <1>4 DEF Outstanding
<1>6. TypesOK'
  BY <1>2, <1>3, <1>4 DEF TypesOK
<1>7. QueueOK'
  BY <1>2, <1>3, <1>4 DEF QueueOK
<1>8. Apart'
  <2>1. \A i \in Outstanding : ChunksOf(cmds[i].lbas) \cap ChunksOf(lbas) = {}
    BY <1>3 DEF BusyChunks
  <2> SUFFICES ASSUME NEW i \in Outstanding \cup {n}, NEW j \in Outstanding \cup {n}, i # j
               PROVE  ChunksOf(cmds'[i].lbas) \cap ChunksOf(cmds'[j].lbas) = {}
    BY <1>5 DEF Apart
  <2>2. CASE i = n
    BY <1>2, <1>4, <1>5, <2>1, <2>2
  <2>3. CASE j = n
    BY <1>2, <1>4, <1>5, <2>1, <2>3
  <2>4. CASE i # n /\ j # n
    BY <1>4, <1>5, <2>4 DEF Apart
  <2> QED BY <2>2, <2>3, <2>4
<1>9. \A i \in DOMAIN cmds : BlocksOf(cmds'[i]) = BlocksOf(cmds[i])
  BY <1>4
<1>10. \A b : Changing(b) => Changing(b)'
  BY <1>4, <1>5, <1>9 DEF Changing
<1>11. DiskAsExpected'
  BY <1>3, <1>10 DEF DiskAsExpected
<1>12. StoredEarly'
  BY <1>2, <1>3, <1>4, <1>5, <1>9 DEF StoredEarly
<1>13. CopiesRight'
  <2>1. ~HasCopied(x)
    BY <1>2 DEF HasCopied
  <2> QED BY <1>3, <1>4, <2>1 DEF CopiesRight
<1> QED BY <1>6, <1>7, <1>8, <1>11, <1>12, <1>13

(***************************************************************************)
(* What is stored for a command is a value for each of its blocks.         *)
(***************************************************************************)
LEMMA StoredAllFacts ==
  ASSUME TypesOK, NEW i \in DOMAIN cmds, NEW v \in Nat
  PROVE  /\ StoredAll(i, v) \in [Blocks -> Nat]
         /\ \A b \in Blocks : b \notin BlocksOf(cmds[i]) => StoredAll(i, v)[b] = disk[b]
         /\ \A b \in BlocksOf(cmds[i]) : StoredAll(i, v)[b] = v
BY BlocksInChunks DEF StoredAll, TypesOK

(***************************************************************************)
(* The commands of version 1.2 store or copy their blocks and go to the    *)
(* flash.                                                                  *)
(***************************************************************************)
LEMMA PhysicalKeeps ==
  ASSUME OCInv, NEW i \in DOMAIN cmds,
         physicalBlockErase(i) \/ physicalPageWrite(i) \/ physicalPageRead(i)
  PROVE  OCInv'
<1>1. TypesOK /\ IsCommand(cmds[i]) /\ disk \in [Blocks -> Nat] /\ i \in Nat
  BY DomainOfSequence DEF OCInv, TypesOK
<1>2. CASE physicalBlockErase(i)
  <2>1. /\ cmds[i].pc = "fetch" /\ cmds[i].op = "blockErase"
        /\ disk' = StoredAll(i, 0) /\ expected' = expected
    BY <1>2 DEF physicalBlockErase, Fetched
  <2>2. PICK entries : ToFlash(i, cmds[i], entries)
    BY <1>2 DEF physicalBlockErase
  <2>3. /\ disk' \in [Blocks -> Nat]
        /\ \A b \in Blocks : b \notin BlocksOf(cmds[i]) => disk'[b] = disk[b]
    BY <1>1, <2>1, StoredAllFacts
  <2> QED BY <1>1, <2>1, <2>2, <2>3, ToFlashKeeps DEF Erasing
<1>3. CASE physicalPageWrite(i)
  <2>1. /\ cmds[i].pc = "fetch" /\ cmds[i].op = "pageWrite"
        /\ disk' = StoredAll(i, i) /\ expected' = expected
    BY <1>3 DEF physicalPageWrite, Fetched
  <2>2. PICK entries : ToFlash(i, cmds[i], entries)
    BY <1>3 DEF physicalPageWrite
  <2>3. /\ disk' \in [Blocks -> Nat]
        /\ \A b \in Blocks : b \notin BlocksOf(cmds[i]) => disk'[b] = disk[b]
        /\ \A b \in BlocksOf(cmds[i]) : disk'[b] = i
    BY <1>1, <2>1, StoredAllFacts
  <2> QED BY <1>1, <2>1, <2>2, <2>3, ToFlashKeeps DEF Writing
<1>4. CASE physicalPageRead(i)
  <2>1. /\ cmds[i].pc = "fetch" /\ cmds[i].op = "pageRead"
        /\ disk' = disk /\ expected' = expected
    BY <1>4 DEF physicalPageRead, Fetched
  <2>2. PICK c : c = WithData(cmds[i], "fetch", Data(cmds[i]))
    OBVIOUS
  <2>3. PICK entries : ToFlash(i, c, entries)
    <3>1. ToFlash(i, [cmds[i] EXCEPT !.data = Data(cmds[i])], convertUnit(cmds[i].lbas, FALSE))
      BY <1>4 DEF physicalPageRead
    <3>2. c = [cmds[i] EXCEPT !.data = Data(cmds[i])]
      <4>1. PICK n : n = Data(cmds[i])
        OBVIOUS
      <4>2. PICK y : y = cmds[i]
        OBVIOUS
      <4>3. PICK o, l, e, m, d : y = [op |-> o, lbas |-> l, pc |-> "fetch",
                                      entries |-> e, mask |-> m, data |-> d]
        BY <1>1, <2>1, <4>2 DEF IsCommand
      <4>4. [y EXCEPT !.data = n]
              = [op |-> o, lbas |-> l, pc |-> "fetch", entries |-> e, mask |-> m, data |-> n]
        BY ONLY <4>3
      <4>5. c = WithData(y, "fetch", n)
        BY <2>2, <4>1, <4>2
      <4>6. c = [op |-> o, lbas |-> l, pc |-> "fetch", entries |-> e, mask |-> m, data |-> n]
        BY ONLY <4>3, <4>5 DEF WithData
      <4> QED BY <4>1, <4>2, <4>4, <4>6
    <3> QED BY <3>1, <3>2
  <2>4. IsCommand(c) /\ c.op = cmds[i].op /\ c.lbas = cmds[i].lbas /\ c.data = Data(cmds[i])
    BY <1>1, <2>2, DataReplaced
  <2> QED BY <1>1, <2>1, <2>3, <2>4, ToFlashKeeps
<1> QED BY <1>2, <1>3, <1>4

(***************************************************************************)
(* Those of version 2.0 wait for a core, and go to the flash then.         *)
(***************************************************************************)
LEMMA ChunkCommandsKeep ==
  ASSUME OCInv, NEW i \in DOMAIN cmds,
         \/ read(i) \/ write(i)
         \/ vectorChunkRead(i) \/ vectorChunkWrite(i) \/ vectorChunkReset(i)
  PROVE  OCInv'
<1>1. PICK entries, mask : WaitForCore(i, entries, mask)
  BY DEF read, write, vectorChunkRead, vectorChunkWrite, vectorChunkReset,
         readInternal, writeInternal, eraseInternal
<1>2. cmds[i].pc = "fetch" /\ cmds[i].op \notin {"pageRead", "pageWrite"}
  BY DEF read, write, vectorChunkRead, vectorChunkWrite, vectorChunkReset, Fetched
<1>3. disk' = IF cmds[i].op = "write" THEN StoredAll(i, i) ELSE disk
  BY DEF read, write, vectorChunkRead, vectorChunkWrite, vectorChunkReset, Fetched,
         readInternal
<1> QED BY <1>1, <1>2, <1>3, WaitForCoreKeeps

(***************************************************************************)
(* A core takes up a command.                                              *)
(***************************************************************************)
LEMMA ExecuteKeeps ==
  ASSUME OCInv, NEW i \in DOMAIN cmds, Execute(i)
  PROVE  OCInv'
<1>1. cmds[i].pc = "core" /\ ToFlash(i, cmds[i], cmds[i].entries)
      /\ disk' = disk /\ expected' = expected
  BY DEF Execute
<1>2. PICK entries : ToFlash(i, cmds[i], entries)
  BY <1>1
<1>3. IsCommand(cmds[i]) /\ disk \in [Blocks -> Nat]
  BY DEF OCInv, TypesOK
<1> QED BY <1>1, <1>2, <1>3, ToFlashKeeps

(***************************************************************************)
(* A command that is answered.                                             *)
(***************************************************************************)
LEMMA AnsweredCommand ==
  ASSUME TypesOK, NEW i \in DOMAIN cmds, cmds' = [cmds EXCEPT ![i].pc = "answered"],
         NEW x, x = WithEntries(cmds[i], cmds[i].entries, "answered")
  PROVE  cmds' = [cmds EXCEPT ![i] = x]
<1>1. PICK y : y = cmds[i]
  OBVIOUS
<1>2. PICK o, l, p, e, m, d : y = [op |-> o, lbas |-> l, pc |-> p,
                                   entries |-> e, mask |-> m, data |-> d]
  BY <1>1 DEF IsCommand, TypesOK
<1>3. [y EXCEPT !.pc = "answered"]
        = [op |-> o, lbas |-> l, pc |-> "answered", entries |-> e, mask |-> m, data |-> d]
  BY ONLY <1>2
<1>4. y.entries = e
  BY ONLY <1>2
<1>5. x = WithEntries(y, e, "answered")
  BY <1>1, <1>4
<1>6. x = [op |-> o, lbas |-> l, pc |-> "answered", entries |-> e, mask |-> m, data |-> d]
  BY ONLY <1>2, <1>5 DEF WithEntries
<1> QED BY <1>1, <1>3, <1>6

(***************************************************************************)
(* The data of a command was moved.                                        *)
(***************************************************************************)
LEMMA DataDoneKeeps ==
  ASSUME OCInv, NEW i \in DOMAIN cmds, DataDone(i)
  PROVE  OCInv'
<1> USE DEF OCInv
<1>1. /\ cmds[i].pc = "data"
      /\ disk' = IF cmds[i].op = "vectorWrite" THEN Stored(i, cmds[i]) ELSE disk
      /\ cmds' = [cmds EXCEPT ![i].pc = "answered"]
      /\ expected' = Learn({i}) /\ completionQueue' = completionQueue
  BY DEF DataDone
<1>2. IsCommand(cmds[i]) /\ disk \in [Blocks -> Nat] /\ i \in Nat /\ IsSequence(cmds)
  BY DomainOfSequence DEF TypesOK
<1>3. PICK x : x = WithEntries(cmds[i], cmds[i].entries, "answered")
  OBVIOUS
<1>4. IsCommand(x) /\ x.op = cmds[i].op /\ x.lbas = cmds[i].lbas /\ x.pc = "answered"
  BY <1>2, <1>3, EntriesReplaced
<1>5. cmds' = [cmds EXCEPT ![i] = x]
  BY <1>1, <1>3, AnsweredCommand
<1>6. /\ IsSequence(cmds') /\ DOMAIN cmds' = DOMAIN cmds /\ cmds'[i] = x
      /\ \A j \in DOMAIN cmds : j # i => cmds'[j] = cmds[j]
  BY <1>2, <1>5, ReplaceCommand
<1>7. {i} \subseteq Outstanding /\ Outstanding' = Outstanding \ {i}
  BY <1>1, <1>4, <1>6 DEF Outstanding
<1>8. QueueOK'
  <2>1. \A r \in completionQueue : r.cmd \in DOMAIN cmds /\ r.cmd # i
    BY <1>1 DEF QueueOK
  <2> QED BY <1>1, <1>4, <1>6, <2>1 DEF QueueOK
<1>9. /\ \A j \in DOMAIN cmds : IsCommand(cmds'[j])
      /\ \A j \in DOMAIN cmds : cmds'[j].op = cmds[j].op /\ cmds'[j].lbas = cmds[j].lbas
  BY <1>4, <1>6 DEF TypesOK
<1>10. /\ disk' \in [Blocks -> Nat]
       /\ \A b \in Blocks : disk'[b] = disk[b] \/
            (cmds[i].op \in Writing /\ b \in BlocksOf(cmds[i]))
  <2>1. CASE cmds[i].op = "vectorWrite"
    <3>1. disk' = [b \in Blocks |->
             IF \E k \in DOMAIN cmds[i].lbas : cmds[i].lbas[k] = b /\ k \notin cmds[i].mask
             THEN i ELSE disk[b]]
      BY <1>1, <2>1 DEF Stored
    <3>2. \A k \in DOMAIN cmds[i].lbas : cmds[i].lbas[k] \in BlocksOf(cmds[i])
      BY <1>2, BlocksInChunks
    <3> QED BY <1>2, <2>1, <3>1, <3>2 DEF Writing
  <2>2. CASE cmds[i].op # "vectorWrite"
    BY <1>1, <1>2, <2>2
  <2> QED BY <2>1, <2>2
<1>11. ASSUME cmds[i].op \in Writing, cmds[i].mask = {}, NEW b \in BlocksOf(cmds[i])
       PROVE  disk'[b] = i
  <2>1. cmds[i].op = "vectorWrite"
    BY <1>1, <1>11 DEF QueueOK, Writing, Reading
  <2>2. b \in Blocks /\ \E k \in DOMAIN cmds[i].lbas : cmds[i].lbas[k] = b
    BY <1>2, BlocksInChunks
  <2> QED BY <1>1, <1>11, <2>1, <2>2 DEF Stored
<1>12. ASSUME NEW j \in DOMAIN cmds, HasCopied(cmds'[j])
       PROVE  j \in Outstanding \ {i} /\ HasCopied(cmds[j]) /\ cmds'[j].data = cmds[j].data
  <2>1. j # i
    BY <1>4, <1>6, <1>12 DEF HasCopied
  <2>2. cmds'[j] = cmds[j]
    BY <1>6, <2>1
  <2> QED BY <1>12, <2>1, <2>2 DEF Outstanding, HasCopied
<1>13. \A j \in Outstanding \ {i} : cmds'[j].pc = "fetch" <=> cmds[j].pc = "fetch"
  BY <1>6 DEF Outstanding
<1>14. PICK A : A = {i}
  OBVIOUS
<1>15. /\ A \subseteq Outstanding /\ expected' = Learn(A)
       /\ Outstanding' = Outstanding \ A
       /\ \A j \in Outstanding \ A : cmds'[j].pc = "fetch" <=> cmds[j].pc = "fetch"
  BY <1>1, <1>7, <1>13, <1>14
<1>16. /\ \A b \in Blocks : disk'[b] = disk[b] \/
            \E j \in A : cmds[j].op \in Writing /\ b \in BlocksOf(cmds[j])
       /\ \A j \in A : cmds[j].op \in Writing /\ cmds[j].mask = {}
            => \A b \in BlocksOf(cmds[j]) : disk'[b] = j
  BY <1>10, <1>11, <1>14
<1>17. \A j \in DOMAIN cmds : HasCopied(cmds'[j]) =>
         /\ j \in Outstanding \ A
         /\ \/ HasCopied(cmds[j]) /\ cmds'[j].data = cmds[j].data
            \/ cmds'[j].data = Data(cmds[j])
  BY <1>12, <1>14
<1> QED BY ONLY OCInv, <1>6, <1>8, <1>9, <1>10, <1>15, <1>16, <1>17, AnswersKeep

(***************************************************************************)
(* A function on the domain of a sequence is a sequence.                   *)
(***************************************************************************)
LEMMA FunctionIsSequence ==
  ASSUME NEW s, IsSequence(s), NEW t, DOMAIN t = DOMAIN s, t = [i \in DOMAIN s |-> t[i]]
  PROVE  IsSequence(t)
<1>1. DOMAIN s = 1 .. Len(s) /\ Len(s) \in Nat
  BY DomainOfSequence
<1>2. t \in [1 .. Len(s) -> {t[i] : i \in DOMAIN s}]
  BY <1>1
<1>3. t \in Seq({t[i] : i \in DOMAIN s})
  BY <1>1, <1>2
<1> QED BY <1>3 DEF IsSequence

(***************************************************************************)
(* The completion event: a command that is due goes on with its data or is *)
(* answered, and the others stay as they are.                              *)
(***************************************************************************)
Ended == {r.cmd : r \in {q \in completionQueue : q.finishedAt <= now}}
Sends == {i \in Ended : cmds[i].op \in {"read", "vectorRead", "pageRead", "vectorWrite"}}
DataOf(i) == IF cmds[i].op \in {"read", "vectorRead"} THEN Data(cmds[i]) ELSE cmds[i].data
Carried(i) ==
  IF i \in Sends THEN WithData(cmds[i], "data", DataOf(i))
  ELSE IF i \in Ended THEN WithEntries(cmds[i], cmds[i].entries, "answered")
  ELSE cmds[i]

(***************************************************************************)
(* What the event makes of a command.                                      *)
(***************************************************************************)
LEMMA CarriedFacts ==
  ASSUME OCInv, NEW i \in DOMAIN cmds
  PROVE  /\ IsCommand(Carried(i))
         /\ Carried(i).op = cmds[i].op /\ Carried(i).lbas = cmds[i].lbas
         /\ i \in Sends => Carried(i).pc = "data" /\ Carried(i).data = DataOf(i)
         /\ i \in Ended \ Sends => Carried(i).pc = "answered"
         /\ i \notin Ended => Carried(i) = cmds[i]
<1>1. IsCommand(cmds[i])
  BY DEF OCInv, TypesOK
<1>2. CASE i \in Sends
  <2>1. PICK x : x = WithData(cmds[i], "data", DataOf(i))
    OBVIOUS
  <2>2. Carried(i) = x /\ i \in Ended
    BY <1>2, <2>1 DEF Carried, Sends
  <2> QED BY <1>1, <1>2, <2>1, <2>2, DataReplaced
<1>3. CASE i \in Ended \ Sends
  <2>1. PICK x : x = WithEntries(cmds[i], cmds[i].entries, "answered")
    OBVIOUS
  <2>2. Carried(i) = x
    BY <1>3, <2>1 DEF Carried
  <2> QED BY <1>1, <1>3, <2>1, <2>2, EntriesReplaced
<1>4. CASE i \notin Ended
  BY <1>1, <1>4 DEF Carried, Sends
<1> QED BY <1>2, <1>3, <1>4

(***************************************************************************)
(* What the event makes of the state.                                      *)
(***************************************************************************)
LEMMA CompletionFacts ==
  ASSUME OCInv, completion
  PROVE  /\ IsSequence(cmds') /\ DOMAIN cmds' = DOMAIN cmds
         /\ \A i \in DOMAIN cmds : cmds'[i] = Carried(i)
         /\ expected' = Learn(Ended \ Sends)
         /\ completionQueue' = {r \in completionQueue : ~(r.finishedAt <= now)}
         /\ disk' = disk
<1>1. /\ expected' = Learn(Ended \ Sends)
      /\ completionQueue' = {r \in completionQueue : ~(r.finishedAt <= now)}
      /\ disk' = disk
  BY DEF completion, Ended, Sends
<1>2. cmds' = [i \in DOMAIN cmds |-> Carried(i)]
  <2>1. cmds' = [i \in DOMAIN cmds |->
                   IF i \in Sends
                   THEN [cmds[i] EXCEPT !.pc = "data",
                           !.data = IF cmds[i].op \in {"read", "vectorRead"}
                                    THEN Data(cmds[i]) ELSE @]
                   ELSE IF i \in Ended
                   THEN [cmds[i] EXCEPT !.pc = "answered"]
                   ELSE cmds[i]]
    BY DEF completion, Ended, Sends
  <2>2. ASSUME NEW y, IsCommand(y), NEW D, NEW T
        PROVE  /\ [y EXCEPT !.pc = "data", !.data = IF T THEN D ELSE @]
                    = WithData(y, "data", IF T THEN D ELSE y.data)
               /\ [y EXCEPT !.pc = "answered"] = WithEntries(y, y.entries, "answered")
    <3>1. PICK o, l, p, e, m, d : y = [op |-> o, lbas |-> l, pc |-> p,
                                       entries |-> e, mask |-> m, data |-> d]
      BY <2>2 DEF IsCommand
    <3>2. [y EXCEPT !.pc = "answered"]
            = [op |-> o, lbas |-> l, pc |-> "answered", entries |-> e, mask |-> m, data |-> d]
      BY ONLY <3>1
    <3>3. PICK x : x = WithEntries(y, e, "answered")
      OBVIOUS
    <3>4. x = [op |-> o, lbas |-> l, pc |-> "answered", entries |-> e, mask |-> m, data |-> d]
      BY ONLY <3>1, <3>3 DEF WithEntries
    <3>5. y.entries = e /\ y.data = d
      BY ONLY <3>1
    <3>6. [y EXCEPT !.pc = "data", !.data = IF T THEN D ELSE @]
            = [y EXCEPT !.pc = "data", !.data = IF T THEN D ELSE y.data]
      BY ONLY <3>1
    <3> QED BY <3>2, <3>3, <3>4, <3>5, <3>6 DEF WithData
  <2>3. \A i \in DOMAIN cmds : IsCommand(cmds[i])
    BY DEF OCInv, TypesOK
  <2>4. ASSUME NEW i \in DOMAIN cmds
        PROVE  /\ [cmds[i] EXCEPT !.pc = "data",
                     !.data = IF cmds[i].op \in {"read", "vectorRead"}
                              THEN Data(cmds[i]) ELSE @]
                    = WithData(cmds[i], "data", DataOf(i))
               /\ [cmds[i] EXCEPT !.pc = "answered"]
                    = WithEntries(cmds[i], cmds[i].entries, "answered")
    BY <2>2, <2>3 DEF DataOf
  <2>5. cmds' = [i \in DOMAIN cmds |->
                   IF i \in Sends THEN WithData(cmds[i], "data", DataOf(i))
                   ELSE IF i \in Ended THEN WithEntries(cmds[i], cmds[i].entries, "answered")
                   ELSE cmds[i]]
    BY ONLY <2>1, <2>4
  <2> QED BY ONLY <2>5 DEF Carried
<1>3. IsSequence(cmds) /\ DOMAIN cmds' = DOMAIN cmds /\ \A i \in DOMAIN cmds : cmds'[i] = Carried(i)
  BY <1>2 DEF OCInv, TypesOK
<1>4. cmds' = [i \in DOMAIN cmds |-> cmds'[i]]
  BY <1>2
<1>5. IsSequence(cmds')
  BY <1>3, <1>4, FunctionIsSequence
<1> QED BY <1>1, <1>3, <1>5

(***************************************************************************)
(* The event keeps the invariant.                                          *)
(***************************************************************************)
LEMMA CompletionKeeps ==
  ASSUME OCInv, completion
  PROVE  OCInv'
<1> DEFINE A == Ended \ Sends
<1>1. /\ \A i \in Ended : i \in DOMAIN cmds /\ cmds[i].pc = "flash" /\ i \in Outstanding
      /\ Sends \subseteq Ended
  BY DEF Ended, Sends, OCInv, QueueOK, Outstanding
<1>2. A \subseteq Outstanding
  BY <1>1
<1>3. Outstanding' = Outstanding \ A
  BY <1>1, CompletionFacts, CarriedFacts DEF Outstanding
<1>4. QueueOK'
  <2>1. ASSUME NEW r \in completionQueue'
        PROVE  r \in completionQueue /\ r.cmd \notin Ended
    <3>1. r \in completionQueue /\ ~(r.finishedAt <= now)
      BY <2>1, CompletionFacts
    <3> QED BY <3>1 DEF Ended, OCInv, QueueOK
  <2>2. \A r \in completionQueue' : r.cmd \in DOMAIN cmds' /\ cmds'[r.cmd].pc = "flash"
    BY <2>1, CompletionFacts, CarriedFacts DEF OCInv, QueueOK
  <2>3. \A r, s \in completionQueue' : r.cmd = s.cmd => r = s
    BY <2>1 DEF OCInv, QueueOK
  <2>4. ASSUME NEW i \in DOMAIN cmds, cmds'[i].pc = "data"
        PROVE  cmds'[i].op \in Reading \cup {"vectorWrite"}
    <3>1. cmds'[i] = Carried(i) /\ Carried(i).op = cmds[i].op
      BY CompletionFacts, CarriedFacts
    <3>2. CASE i \in Sends
      BY <3>1, <3>2 DEF Sends, Reading
    <3>3. CASE i \in Ended \ Sends
      BY <2>4, <3>1, <3>3, CarriedFacts
    <3>4. CASE i \notin Ended
      BY <2>4, <3>1, <3>4, CarriedFacts DEF OCInv, QueueOK
    <3> QED BY <1>1, <3>2, <3>3, <3>4
  <2> QED BY <2>2, <2>3, <2>4, CompletionFacts DEF QueueOK
<1>5. ASSUME NEW i \in A, cmds[i].op \in Writing, NEW b \in BlocksOf(cmds[i])
      PROVE  disk'[b] = i
  <2>1. cmds[i].op \in {"pageWrite", "write"} /\ cmds[i].pc = "flash" /\ i \in Outstanding
    BY <1>1, <1>5 DEF Writing, Sends
  <2> QED BY <2>1, CompletionFacts DEF OCInv, StoredEarly
<1>6. \A j \in Outstanding \ A : cmds'[j].pc = "fetch" <=> cmds[j].pc = "fetch"
  <2> TAKE j \in Outstanding \ A
  <2>1. j \in DOMAIN cmds /\ cmds'[j] = Carried(j)
    BY CompletionFacts DEF Outstanding
  <2>2. CASE j \in Sends
    BY <1>1, <2>1, <2>2, CarriedFacts
  <2>3. CASE j \notin Sends
    BY <2>1, <2>3, CarriedFacts
  <2> QED BY <2>2, <2>3
<1>7. ASSUME NEW j \in DOMAIN cmds, HasCopied(cmds'[j])
      PROVE  /\ j \in Outstanding \ A
             /\ \/ HasCopied(cmds[j]) /\ cmds'[j].data = cmds[j].data
                \/ cmds'[j].data = Data(cmds[j])
  <2>1. cmds'[j] = Carried(j) /\ Carried(j).op = cmds[j].op
    BY CompletionFacts, CarriedFacts
  <2>2. CASE j \in Sends
    <3>1. cmds'[j].data = DataOf(j) /\ cmds[j].pc = "flash" /\ j \in Outstanding \ A
      BY <1>1, <2>1, <2>2, CarriedFacts
    <3>2. CASE cmds[j].op \in {"read", "vectorRead"}
      BY <3>1, <3>2 DEF DataOf
    <3>3. CASE cmds[j].op \notin {"read", "vectorRead"}
      BY <1>7, <2>1, <3>1, <3>3 DEF DataOf, HasCopied
    <3> QED BY <3>2, <3>3
  <2>3. CASE j \in A
    BY <1>7, <2>1, <2>3, CarriedFacts DEF HasCopied
  <2>4. CASE j \notin Ended
    <3>1. cmds'[j] = cmds[j]
      BY <2>1, <2>4, CarriedFacts
    <3> QED BY <1>7, <2>4, <3>1 DEF HasCopied, Outstanding
  <2> QED BY <2>2, <2>3, <2>4
<1>8. /\ \A j \in DOMAIN cmds : IsCommand(cmds'[j])
      /\ \A j \in DOMAIN cmds : cmds'[j].op = cmds[j].op /\ cmds'[j].lbas = cmds[j].lbas
  BY CompletionFacts, CarriedFacts
<1>9. disk' \in [Blocks -> Nat]
  BY CompletionFacts DEF OCInv, TypesOK
<1>10. \A j \in DOMAIN cmds : HasCopied(cmds'[j]) =>
         /\ j \in Outstanding \ A
         /\ \/ HasCopied(cmds[j]) /\ cmds'[j].data = cmds[j].data
            \/ cmds'[j].data = Data(cmds[j])
  BY <1>7
<1>11. /\ \A b \in Blocks : disk'[b] = disk[b] \/
            \E j \in A : cmds[j].op \in Writing /\ b \in BlocksOf(cmds[j])
       /\ \A j \in A : cmds[j].op \in Writing /\ cmds[j].mask = {}
            => \A b \in BlocksOf(cmds[j]) : disk'[b] = j
  BY <1>5, CompletionFacts
<1>12. IsSequence(cmds') /\ DOMAIN cmds' = DOMAIN cmds /\ expected' = Learn(A)
  BY CompletionFacts
<1> HIDE DEF A
<1> QED BY ONLY OCInv, <1>2, <1>3, <1>4, <1>6, <1>8, <1>9, <1>10, <1>11, <1>12, AnswersKeep

(***************************************************************************)
(* Every step keeps the invariant.                                         *)
(***************************************************************************)
LEMMA NextOCInv == OCInv /\ [Next]_vars => OCInv'
<1> SUFFICES ASSUME OCInv, [Next]_vars PROVE OCInv'
  OBVIOUS
<1>1. ASSUME NEW op \in Operations, NEW lbas \in VectorLists, Submit(op, lbas)
      PROVE  OCInv'
  <2>1. op \in Reading \cup Writing \cup Erasing
    BY DEF Operations, Reading, Writing, Erasing
  <2> QED BY <1>1, <2>1, SubmitKeeps, HostAssumption
<1>2. ASSUME NEW op \in {"read", "write"}, NEW r \in Ranges,
             Submit(op, Run(r[1], r[1] + r[2] - 1))
      PROVE  OCInv'
  <2>1. op \in Reading \cup Writing \cup Erasing
    BY DEF Reading, Writing
  <2> QED BY <1>2, <2>1, SubmitKeeps, RunOfBlocks
<1>3. CASE Advance
  BY <1>3 DEF Advance, OCInv, TypesOK, QueueOK, Apart, DiskAsExpected, StoredEarly,
              CopiesRight, Outstanding, Changing
<1>4. CASE UNCHANGED vars
  BY <1>4 DEF vars, OCInv, TypesOK, QueueOK, Apart, DiskAsExpected, StoredEarly,
              CopiesRight, Outstanding, Changing
<1> QED BY <1>1, <1>2, <1>3, <1>4, PhysicalKeeps, ChunkCommandsKeep, ExecuteKeeps,
           DataDoneKeeps, CompletionKeeps DEF Next

(***************************************************************************)
(* A read, of one page or of a list or a range of blocks, gets the data    *)
(* the host last wrote and was told about, although the commands overtake  *)
(* each other, a refused write may have stored some of its blocks, data is *)
(* stored before the flash is asked or after it is done, and a chunk that  *)
(* was reset keeps its data.                                               *)
(***************************************************************************)
THEOREM ReadsReturnNewestData == Spec => []ReadsNewest
<1>1. OCInv => ReadsNewest
  <2> SUFFICES ASSUME OCInv, NEW i \in DOMAIN cmds, cmds[i].pc = "data",
                      cmds[i].op # "vectorWrite"
               PROVE  HasCopied(cmds[i])
    BY DEF OCInv, CopiesRight, ReadsNewest
  <2> QED BY DEF OCInv, QueueOK, HasCopied, Reading
<1> QED BY <1>1, InitOCInv, NextOCInv, PTL DEF Spec

-----------------------------------------------------------------------------
(***************************************************************************)
(* The descriptors.  A page of a chunk, as convertUnit makes it of a block.*)
(***************************************************************************)
PageIds == 0 .. Pages - 1

(***************************************************************************)
(* A quotient is below the factor.                                         *)
(***************************************************************************)
LEMMA DivisionBound ==
  ASSUME NEW a \in Nat, NEW w \in Nat \ {0}, NEW x \in 0 .. a * w - 1
  PROVE  x \div w \in 0 .. a - 1
OBVIOUS

(***************************************************************************)
(* Blocks of the device lie on pages of its chunks.                        *)
(***************************************************************************)
LEMMA ParsedBlock ==
  ASSUME NEW b \in Blocks
  PROVE  parseLBA(b)[1] \in ChunkIds /\ parseLBA(b)[2] \in PageIds
<1>1. ChunkSize \in Nat \ {0}
  BY OpenChannelAssumption DEF ChunkSize
<1>2. PICK s \in Nat \ {0} : s = ChunkSize
  BY <1>1
<1>3. b \in 0 .. Chunks * s - 1 /\ Chunks \in Nat /\ Chunks * s \in Nat
  BY <1>2, OpenChannelAssumption DEF Blocks
<1>4. b \div s \in 0 .. Chunks - 1
  BY <1>3, DivisionBound
<1>5. b % s \in 0 .. s - 1
  BY <1>3
<1>6. s = Pages * WriteSize /\ Pages \in Nat /\ WriteSize \in Nat \ {0}
  BY <1>2, OpenChannelAssumption DEF ChunkSize
<1>7. (b % s) \div WriteSize \in 0 .. Pages - 1
  BY <1>5, <1>6, DivisionBound
<1> QED BY <1>2, <1>4, <1>7 DEF parseLBA, ChunkIds, PageIds

(***************************************************************************)
(* The entries are pages of the chunks of the list, and no more than it    *)
(* has blocks.                                                             *)
(***************************************************************************)
LEMMA ConvertedList ==
  ASSUME NEW list \in Seq(Blocks), NEW block \in BOOLEAN, NEW entries,
         entries = convertUnit(list, block)
  PROVE  entries \in Seq(ChunksOf(list) \X PageIds) /\ Len(entries) <= Len(list)
<1> DEFINE n == Len(list)
           E == ChunksOf(list) \X PageIds
           S == Seq(E)
           p(i) == parseLBA(list[i])
           keep(s, i) == s # <<>> /\ (Last(s)[1] = p(i)[1] /\ (block \/ Last(s)[2] = p(i)[2]))
           f == CHOOSE f : f = [i \in 0 .. n |->
                  IF i = 0 THEN <<>>
                  ELSE IF keep(f[i - 1], i) THEN f[i - 1] ELSE Append(f[i - 1], p(i))]
           step == [i \in 1 .. n |-> [s \in S |-> IF keep(s, i) THEN s ELSE Append(s, p(i))]]
<1>1. entries = f[n]
  BY Zenon DEF convertUnit
<1>2. n \in Nat /\ DOMAIN list = 1 .. n
  OBVIOUS
<1>3. \A i \in 1 .. n : p(i) \in E
  <2> TAKE i \in 1 .. n
  <2>1. list[i] \in Blocks /\ parseLBA(list[i])[1] \in ChunksOf(list)
    BY <1>2 DEF ChunksOf
  <2>2. parseLBA(list[i])[2] \in PageIds
    BY <2>1, ParsedBlock
  <2>3. p(i) = <<parseLBA(list[i])[1], parseLBA(list[i])[2]>>
    BY DEF parseLBA
  <2> QED BY <2>1, <2>2, <2>3
<1> HIDE DEF E, p, keep
<1>4. <<>> \in S /\ step \in [1 .. n -> [S -> S]]
  BY <1>3
<1>5. PICK g : IsTrace(g, n, S, <<>>, step)
  <2> HIDE DEF S, step, n
  <2> QED BY <1>2, <1>4, LoopTrace
<1>6. g \in [0 .. n -> S] /\ g[0] = <<>> /\ \A i \in 1 .. n : g[i] = step[i][g[i - 1]]
  BY <1>5 DEF IsTrace
<1>7. g = [i \in 0 .. n |->
             IF i = 0 THEN <<>>
             ELSE IF keep(g[i - 1], i) THEN g[i - 1] ELSE Append(g[i - 1], p(i))]
  <2>1. \A i \in 1 .. n : g[i - 1] \in S /\ i \in 0 .. n /\ i # 0
    <3> HIDE DEF S, step, n
    <3>1. \A i \in 1 .. n : i - 1 \in 0 .. n /\ i \in 0 .. n /\ i # 0
      BY <1>2
    <3> QED BY <1>6, <3>1
  <2>2. \A i \in 1 .. n : g[i] = IF keep(g[i - 1], i) THEN g[i - 1] ELSE Append(g[i - 1], p(i))
    BY <1>6, <2>1
  <2>3. \A i \in 0 .. n : i = 0 \/ i \in 1 .. n
    BY <1>2
  <2> HIDE DEF S, step
  <2> QED BY <1>6, <2>2, <2>3
<1>8. f = [i \in 0 .. n |->
             IF i = 0 THEN <<>>
             ELSE IF keep(f[i - 1], i) THEN f[i - 1] ELSE Append(f[i - 1], p(i))]
  BY <1>7
<1> HIDE DEF f, step
<1> DEFINE T == {i \in 0 .. n : f[i] \in S /\ Len(f[i]) <= i}
<1>9. 0 \in T
  <2>1. f[0] = <<>>
    BY <1>2, <1>8
  <2>2. f[0] \in S /\ Len(f[0]) = 0
    BY <2>1
  <2> QED BY <1>2, <2>2
<1>10. ASSUME NEW i \in 1 .. n, i - 1 \in T
       PROVE  i \in T
  <2>1. f[i] = IF keep(f[i - 1], i) THEN f[i - 1] ELSE Append(f[i - 1], p(i))
    <3>1. i \in 0 .. n /\ i # 0
      BY <1>2
    <3> HIDE DEF n
    <3> QED BY <1>8, <3>1
  <2>2. PICK s \in S : s = f[i - 1] /\ Len(s) <= i - 1 /\ Len(s) \in Nat
    BY <1>10
  <2>3. p(i) \in E
    BY <1>3
  <2>4. Append(s, p(i)) \in S /\ Len(Append(s, p(i))) = Len(s) + 1
    BY <2>2, <2>3
  <2>5. f[i] \in S /\ Len(f[i]) <= i
    BY <1>2, <2>1, <2>2, <2>4
  <2> QED BY <1>2, <2>5
<1> HIDE DEF T
<1>11. \A i \in 1 .. n : i - 1 \in T => i \in T
  BY <1>10
<1>12. \A i \in 0 .. n : i \in T
  BY <1>2, <1>9, <1>11, UpTo
<1>13. n \in T
  BY <1>2, <1>12
<1>14. f[n] \in S /\ Len(f[n]) <= n
  BY <1>13 DEF T
<1> QED BY <1>1, <1>14 DEF E

(***************************************************************************)
(* The loop that collects the pages of a chunk.                            *)
(***************************************************************************)
PagesLoop(f, k, s) ==
  /\ f \in [0 .. Len(s) -> Seq(PageIds)] /\ f[0] = <<>>
  /\ \A i \in 1 .. Len(s) :
       f[i] = IF s[i][1] = k THEN Append(f[i - 1], s[i][2]) ELSE f[i - 1]

(***************************************************************************)
(* PagesOf is where that loop ends.                                        *)
(***************************************************************************)
LEMMA PagesTrace ==
  ASSUME NEW K, NEW s \in Seq(K \X PageIds), NEW k
  PROVE  \E f : PagesLoop(f, k, s) /\ PagesOf(k, s) = f[Len(s)]
<1> DEFINE n == Len(s)
           S == Seq(PageIds)
           f == CHOOSE f : f = [i \in 0 .. n |->
                  IF i = 0 THEN <<>>
                  ELSE IF s[i][1] = k THEN Append(f[i - 1], s[i][2]) ELSE f[i - 1]]
           step == [i \in 1 .. n |-> [p \in S |-> IF s[i][1] = k THEN Append(p, s[i][2]) ELSE p]]
<1>1. PagesOf(k, s) = f[n]
  BY Zenon DEF PagesOf
<1>2. n \in Nat /\ \A i \in 1 .. n : s[i][2] \in PageIds
  OBVIOUS
<1>3. <<>> \in S /\ step \in [1 .. n -> [S -> S]]
  BY <1>2
<1>4. PICK g : IsTrace(g, n, S, <<>>, step)
  <2> HIDE DEF S, step, n
  <2> QED BY <1>2, <1>3, LoopTrace
<1>5. g \in [0 .. n -> S] /\ g[0] = <<>> /\ \A i \in 1 .. n : g[i] = step[i][g[i - 1]]
  BY <1>4 DEF IsTrace
<1>6. g = [i \in 0 .. n |->
             IF i = 0 THEN <<>>
             ELSE IF s[i][1] = k THEN Append(g[i - 1], s[i][2]) ELSE g[i - 1]]
  <2>1. \A i \in 1 .. n : g[i - 1] \in S /\ i \in 0 .. n /\ i # 0
    <3> HIDE DEF S, step, n
    <3>1. \A i \in 1 .. n : i - 1 \in 0 .. n /\ i \in 0 .. n /\ i # 0
      BY <1>2
    <3> QED BY <1>5, <3>1
  <2>2. \A i \in 1 .. n :
          g[i] = IF s[i][1] = k THEN Append(g[i - 1], s[i][2]) ELSE g[i - 1]
    BY <1>5, <2>1
  <2>3. \A i \in 0 .. n : i = 0 \/ i \in 1 .. n
    BY <1>2
  <2> HIDE DEF S, step
  <2> QED BY <1>5, <2>2, <2>3
<1>7. f = [i \in 0 .. n |->
             IF i = 0 THEN <<>>
             ELSE IF s[i][1] = k THEN Append(f[i - 1], s[i][2]) ELSE f[i - 1]]
  BY <1>6
<1> HIDE DEF f, step
<1>8. f[0] = <<>> /\ DOMAIN f = 0 .. n
  BY <1>2, <1>7
<1>9. \A i \in 1 .. n : f[i] = IF s[i][1] = k THEN Append(f[i - 1], s[i][2]) ELSE f[i - 1]
  <2>1. \A i \in 1 .. n : i \in 0 .. n /\ i # 0
    BY <1>2
  <2> HIDE DEF n
  <2> QED BY <1>7, <2>1
<1> DEFINE T == {i \in 0 .. n : f[i] \in S}
<1>10. 0 \in T
  <2>1. f[0] \in S
    BY <1>8
  <2> QED BY <1>2, <2>1
<1>11. \A i \in 1 .. n : i - 1 \in T => i \in T
  <2> SUFFICES ASSUME NEW i \in 1 .. n, i - 1 \in T PROVE i \in T
    OBVIOUS
  <2>1. s[i][2] \in PageIds /\ f[i - 1] \in S
    BY <1>2
  <2>2. f[i] = IF s[i][1] = k THEN Append(f[i - 1], s[i][2]) ELSE f[i - 1]
    BY <1>9
  <2>3. f[i] \in S
    BY <2>1, <2>2
  <2> QED BY <1>2, <2>3
<1> HIDE DEF T
<1>12. \A i \in 0 .. n : i \in T
  BY <1>2, <1>10, <1>11, UpTo
<1>13. f \in [0 .. n -> S]
  <2>1. \A i \in 0 .. n : f[i] \in S
    BY <1>12 DEF T
  <2> HIDE DEF S, n
  <2> QED BY <1>7, <2>1
<1> QED BY <1>1, <1>8, <1>9, <1>13 DEF PagesLoop

(***************************************************************************)
(* Of no entries there are no pages.                                       *)
(***************************************************************************)
LEMMA PagesOfNone ==
  ASSUME NEW k
  PROVE  PagesOf(k, <<>>) = <<>>
<1>1. PICK s : s = <<>>
  OBVIOUS
<1>2. s \in Seq({} \X PageIds) /\ Len(s) = 0
  BY <1>1
<1>3. PICK f : PagesLoop(f, k, s) /\ PagesOf(k, s) = f[Len(s)]
  BY <1>2, PagesTrace
<1> QED BY <1>1, <1>2, <1>3 DEF PagesLoop

(***************************************************************************)
(* One entry more.                                                         *)
(***************************************************************************)
LEMMA PagesOfAppend ==
  ASSUME NEW K, NEW s \in Seq(K \X PageIds), NEW e \in K \X PageIds, NEW k
  PROVE  /\ PagesOf(k, Append(s, e))
              = IF e[1] = k THEN Append(PagesOf(k, s), e[2]) ELSE PagesOf(k, s)
         /\ PagesOf(k, s) \in Seq(PageIds)
<1> DEFINE n == Len(s)
<1>1. PICK t : t = Append(s, e)
  OBVIOUS
<1>2. /\ t \in Seq(K \X PageIds) /\ Len(t) = n + 1 /\ n \in Nat /\ t[n + 1] = e
      /\ \A i \in 1 .. n : t[i] = s[i]
  BY <1>1
<1>3. PICK f : PagesLoop(f, k, s) /\ PagesOf(k, s) = f[n]
  BY PagesTrace
<1>4. PICK g : PagesLoop(g, k, t) /\ PagesOf(k, t) = g[Len(t)]
  BY <1>2, PagesTrace
<1>5. /\ \A i \in 1 .. n : f[i] = IF s[i][1] = k THEN Append(f[i - 1], s[i][2]) ELSE f[i - 1]
      /\ f[0] = <<>> /\ f[n] \in Seq(PageIds)
  BY <1>2, <1>3 DEF PagesLoop
<1>6. /\ \A i \in 1 .. n + 1 :
           g[i] = IF t[i][1] = k THEN Append(g[i - 1], t[i][2]) ELSE g[i - 1]
      /\ g[0] = <<>>
  BY <1>2, <1>4 DEF PagesLoop
<1> HIDE DEF n
<1> DEFINE T == {i \in 0 .. n : g[i] = f[i]}
<1>7. 0 \in T
  <2>1. g[0] = f[0]
    BY <1>5, <1>6
  <2> QED BY <1>2, <2>1
<1>8. \A i \in 1 .. n : i - 1 \in T => i \in T
  <2> TAKE i \in 1 .. n
  <2>1. i \in 1 .. n + 1 /\ i \in 0 .. n
    BY <1>2
  <2>2. /\ g[i] = IF s[i][1] = k THEN Append(g[i - 1], s[i][2]) ELSE g[i - 1]
        /\ f[i] = IF s[i][1] = k THEN Append(f[i - 1], s[i][2]) ELSE f[i - 1]
    BY <1>2, <1>5, <1>6, <2>1
  <2> QED BY <2>1, <2>2
<1> HIDE DEF T
<1>9. \A i \in 0 .. n : i \in T
  BY <1>2, <1>7, <1>8, UpTo
<1>10. g[n] = f[n]
  BY <1>2, <1>9 DEF T
<1>11. g[n + 1] = IF e[1] = k THEN Append(g[n], e[2]) ELSE g[n]
  <2>1. n + 1 \in 1 .. n + 1 /\ (n + 1) - 1 = n
    BY <1>2
  <2> QED BY <1>2, <1>6, <2>1
<1>12. PagesOf(k, t) = g[n + 1]
  BY <1>2, <1>4
<1> QED BY <1>1, <1>3, <1>5, <1>10, <1>11, <1>12

(***************************************************************************)
(* What is collected are pages.                                            *)
(***************************************************************************)
LEMMA PagesArePages ==
  ASSUME NEW K, NEW s \in Seq(K \X PageIds), NEW k
  PROVE  PagesOf(k, s) \in Seq(PageIds)
<1>1. PICK f : PagesLoop(f, k, s) /\ PagesOf(k, s) = f[Len(s)]
  BY PagesTrace
<1>2. Len(s) \in 0 .. Len(s)
  OBVIOUS
<1> QED BY <1>1, <1>2 DEF PagesLoop

(***************************************************************************)
(* A chunk has pages among the entries if and only if one names it.        *)
(***************************************************************************)
LEMMA PagesOfNamed ==
  ASSUME NEW K, NEW s \in Seq(K \X PageIds), NEW k
  PROVE  PagesOf(k, s) = <<>> <=> k \notin NamedBy(s)
<1> DEFINE n == Len(s)
<1>1. PICK f : PagesLoop(f, k, s) /\ PagesOf(k, s) = f[n]
  BY PagesTrace
<1>2. /\ \A i \in 1 .. n : f[i] = IF s[i][1] = k THEN Append(f[i - 1], s[i][2]) ELSE f[i - 1]
      /\ \A i \in 0 .. n : f[i] \in Seq(PageIds)
      /\ f[0] = <<>> /\ n \in Nat /\ DOMAIN s = 1 .. n
  <2>1. n \in Nat /\ DOMAIN s = 1 .. n
    OBVIOUS
  <2>2. f \in [0 .. n -> Seq(PageIds)] /\ f[0] = <<>>
    BY <1>1, Zenon DEF PagesLoop
  <2>3. \A i \in 1 .. n : f[i] = IF s[i][1] = k THEN Append(f[i - 1], s[i][2]) ELSE f[i - 1]
    BY <1>1, Zenon DEF PagesLoop
  <2>4. PICK S, N : S = Seq(PageIds) /\ N = 0 .. n
    OBVIOUS
  <2>5. \A i \in N : f[i] \in S
    BY ONLY <2>2, <2>4
  <2> QED BY <2>1, <2>2, <2>3, <2>4, <2>5
<1>3. \A i \in 1 .. n : s[i][2] \in PageIds
  OBVIOUS
<1> HIDE DEF n
<1> DEFINE T == {i \in 0 .. n : f[i] = <<>> <=> \A j \in 1 .. i : s[j][1] # k}
<1>4. 0 \in T
  BY <1>2
<1>5. ASSUME NEW i \in 1 .. n, i - 1 \in T
      PROVE  i \in T
  <2>1. /\ i \in 0 .. n /\ i - 1 \in 0 .. n /\ i \in 1 .. i
        /\ \A j \in 1 .. i : j = i \/ j \in 1 .. i - 1
        /\ \A j \in 1 .. i - 1 : j \in 1 .. i
    BY <1>2
  <2>2. PICK pages \in Seq(PageIds) : pages = f[i - 1]
    BY <1>2, <2>1
  <2>3. Append(pages, s[i][2]) # <<>>
    BY <1>3
  <2>4. f[i] = IF s[i][1] = k THEN Append(pages, s[i][2]) ELSE pages
    BY <1>2, <2>2
  <2>5. pages = <<>> <=> \A j \in 1 .. i - 1 : s[j][1] # k
    BY <1>5, <2>2
  <2>6. f[i] = <<>> <=> \A j \in 1 .. i : s[j][1] # k
    BY <2>1, <2>3, <2>4, <2>5
  <2> QED BY <2>1, <2>6
<1> HIDE DEF T
<1>6. \A i \in 1 .. n : i - 1 \in T => i \in T
  BY <1>5
<1>7. \A i \in 0 .. n : i \in T
  BY <1>2, <1>4, <1>6, UpTo
<1>8. n \in T
  BY <1>2, <1>7
<1>9. f[n] = <<>> <=> \A j \in 1 .. n : s[j][1] # k
  BY <1>8 DEF T
<1> QED BY <1>1, <1>2, <1>9 DEF NamedBy

(***************************************************************************)
(* A chunk that no entry names has no pages.                               *)
(***************************************************************************)
LEMMA PagesOfOthers ==
  ASSUME NEW K, NEW s \in Seq(K \X PageIds), NEW k, k \notin K
  PROVE  PagesOf(k, s) = <<>>
<1>1. \A i \in DOMAIN s : s[i][1] # k
  OBVIOUS
<1> QED BY <1>1, PagesOfNamed DEF NamedBy

(***************************************************************************)
(* The loop that removes the entries of the mask.                          *)
(***************************************************************************)
Removed(i, mask) == i \in mask /\ i <= MaskBits

AcceptLoop(f, entries, mask, E) ==
  /\ f \in [0 .. Len(entries) -> Seq(E)] /\ f[0] = <<>>
  /\ \A i \in 1 .. Len(entries) :
       f[i] = IF Removed(i, mask) THEN f[i - 1] ELSE Append(f[i - 1], entries[i])

(***************************************************************************)
(* Accepted is where that loop ends.                                       *)
(***************************************************************************)
LEMMA AcceptTrace ==
  ASSUME NEW E, NEW entries \in Seq(E), NEW mask
  PROVE  \E f : /\ AcceptLoop(f, entries, mask, E)
                /\ Accepted(entries, mask) = f[Len(entries)]
<1> DEFINE n == Len(entries)
           S == Seq(E)
           f == CHOOSE f : f = [i \in 0 .. n |->
                  IF i = 0 THEN <<>>
                  ELSE IF Removed(i, mask) THEN f[i - 1] ELSE Append(f[i - 1], entries[i])]
           step == [i \in 1 .. n |-> [p \in S |->
                      IF Removed(i, mask) THEN p ELSE Append(p, entries[i])]]
<1>1. Accepted(entries, mask) = f[n]
  BY Zenon DEF Accepted, Removed
<1>2. n \in Nat /\ \A i \in 1 .. n : entries[i] \in E
  OBVIOUS
<1>3. <<>> \in S /\ step \in [1 .. n -> [S -> S]]
  BY <1>2
<1>4. PICK g : IsTrace(g, n, S, <<>>, step)
  <2> HIDE DEF S, step, n
  <2> QED BY <1>2, <1>3, LoopTrace
<1>5. g \in [0 .. n -> S] /\ g[0] = <<>> /\ \A i \in 1 .. n : g[i] = step[i][g[i - 1]]
  BY <1>4 DEF IsTrace
<1>6. \A i \in 1 .. n : g[i - 1] \in S /\ i \in 0 .. n /\ i # 0
  <2> HIDE DEF S, step, n
  <2>1. \A i \in 1 .. n : i - 1 \in 0 .. n /\ i \in 0 .. n /\ i # 0
    BY <1>2
  <2> QED BY <1>5, <2>1
<1>7. \A i \in 1 .. n :
        g[i] = IF Removed(i, mask) THEN g[i - 1] ELSE Append(g[i - 1], entries[i])
  BY <1>5, <1>6
<1>8. g = [i \in 0 .. n |->
             IF i = 0 THEN <<>>
             ELSE IF Removed(i, mask) THEN g[i - 1] ELSE Append(g[i - 1], entries[i])]
  <2>1. \A i \in 0 .. n : i = 0 \/ i \in 1 .. n
    BY <1>2
  <2> HIDE DEF S, step
  <2> QED BY <1>5, <1>7, <2>1
<1>9. f = [i \in 0 .. n |->
             IF i = 0 THEN <<>>
             ELSE IF Removed(i, mask) THEN f[i - 1] ELSE Append(f[i - 1], entries[i])]
  BY <1>8
<1> HIDE DEF f, step
<1> DEFINE T == {i \in 0 .. n : f[i] = g[i]}
<1>10. 0 \in T
  BY <1>2, <1>5, <1>9
<1>11. \A i \in 1 .. n : i - 1 \in T => i \in T
  <2> SUFFICES ASSUME NEW i \in 1 .. n, i - 1 \in T PROVE i \in T
    OBVIOUS
  <2> HIDE DEF n, S
  <2>1. f[i] = IF Removed(i, mask) THEN f[i - 1] ELSE Append(f[i - 1], entries[i])
    BY <1>6, <1>9
  <2> QED BY <1>6, <1>7, <2>1
<1> HIDE DEF T
<1>12. \A i \in 0 .. n : i \in T
  BY <1>2, <1>10, <1>11, UpTo
<1>13. f[n] = g[n]
  BY <1>2, <1>12 DEF T
<1> QED BY <1>1, <1>5, <1>7, <1>13 DEF AcceptLoop

(***************************************************************************)
(* What is accepted are entries, of those that are not removed.            *)
(***************************************************************************)
LEMMA AcceptedEntries ==
  ASSUME NEW E, NEW entries \in Seq(E), NEW mask, NEW accepted,
         accepted = Accepted(entries, mask)
  PROVE  /\ accepted \in Seq(E)
         /\ \A l \in DOMAIN accepted : \E j \in 1 .. Len(entries) :
              ~Removed(j, mask) /\ accepted[l] = entries[j]
<1> DEFINE n == Len(entries)
           From(s, i) == \A l \in DOMAIN s : \E j \in 1 .. i :
                           ~Removed(j, mask) /\ s[l] = entries[j]
<1>1. PICK f : AcceptLoop(f, entries, mask, E) /\ accepted = f[n]
  BY AcceptTrace
<1>2. /\ \A i \in 0 .. n : f[i] \in Seq(E)
      /\ f[0] = <<>> /\ n \in Nat
      /\ \A i \in 1 .. n :
           f[i] = IF Removed(i, mask) THEN f[i - 1] ELSE Append(f[i - 1], entries[i])
      /\ \A i \in 1 .. n : entries[i] \in E
  <2>1. n \in Nat /\ \A i \in 1 .. n : entries[i] \in E
    OBVIOUS
  <2>2. f \in [0 .. n -> Seq(E)] /\ f[0] = <<>>
    BY <1>1, Zenon DEF AcceptLoop
  <2>3. \A i \in 1 .. n :
          f[i] = IF Removed(i, mask) THEN f[i - 1] ELSE Append(f[i - 1], entries[i])
    BY <1>1, Zenon DEF AcceptLoop
  <2>4. PICK S, N : S = Seq(E) /\ N = 0 .. n
    OBVIOUS
  <2>5. \A i \in N : f[i] \in S
    BY ONLY <2>2, <2>4
  <2> QED BY <2>1, <2>2, <2>3, <2>4, <2>5
<1> HIDE DEF n
<1> DEFINE T == {i \in 0 .. n : From(f[i], i)}
<1>3. 0 \in T
  BY <1>2
<1>4. ASSUME NEW i \in 1 .. n, i - 1 \in T
      PROVE  i \in T
  <2>1. /\ i \in 0 .. n /\ i - 1 \in 0 .. n /\ i \in 1 .. i
        /\ \A j \in 1 .. i - 1 : j \in 1 .. i
    BY <1>2
  <2>2. PICK s \in Seq(E) : s = f[i - 1]
    BY <1>2, <2>1
  <2>3. From(s, i - 1)
    BY <1>4, <2>2
  <2>4. From(s, i)
    BY <2>1, <2>3
  <2>5. CASE Removed(i, mask)
    <3>1. f[i] = s
      BY <1>2, <2>2, <2>5
    <3> QED BY <2>1, <2>4, <3>1
  <2>6. CASE ~Removed(i, mask)
    <3>1. PICK t : t = Append(s, entries[i])
      OBVIOUS
    <3>2. f[i] = t
      BY <1>2, <2>2, <2>6, <3>1
    <3>3. ASSUME NEW l \in DOMAIN t
          PROVE  (l \in DOMAIN s /\ t[l] = s[l]) \/ t[l] = entries[i]
      BY <1>2, <3>1
    <3>4. From(t, i)
      <4> TAKE l \in DOMAIN t
      <4>1. CASE l \in DOMAIN s /\ t[l] = s[l]
        BY <2>4, <4>1
      <4>2. CASE t[l] = entries[i]
        BY <2>1, <2>6, <4>2
      <4> QED BY <3>3, <4>1, <4>2
    <3> QED BY <2>1, <3>2, <3>4
  <2> QED BY <2>5, <2>6
<1> HIDE DEF T
<1>5. \A i \in 1 .. n : i - 1 \in T => i \in T
  BY <1>4
<1>6. \A i \in 0 .. n : i \in T
  BY <1>2, <1>3, <1>5, UpTo
<1>7. n \in T /\ n \in 0 .. n
  BY <1>2, <1>6
<1>8. From(f[n], n)
  BY <1>7 DEF T
<1>9. accepted \in Seq(E)
  BY <1>1, <1>2, <1>7
<1>10. \A l \in DOMAIN accepted : \E j \in 1 .. n :
         ~Removed(j, mask) /\ accepted[l] = entries[j]
  BY <1>1, <1>8
<1> QED BY <1>9, <1>10 DEF n

-----------------------------------------------------------------------------
(***************************************************************************)
(* The loop that updates the descriptors, for what is refused and what an  *)
(* entry makes of its descriptor given as a set and a function.            *)
(***************************************************************************)
Descriptor == [state : {"FREE", "OPEN", "CLOSED"}, wp : Nat]
Case == Descriptor \X PageIds
Descriptors == [chunks : [ChunkIds -> Descriptor], mask : SUBSET Nat]

Turn(r, i, e, Refused, After) ==
  IF r.mask # {} \/ <<r.chunks[e[1]], e[2]>> \in Refused
  THEN [chunks |-> r.chunks, mask |-> r.mask \cup {i}]
  ELSE [chunks |-> [r.chunks EXCEPT ![e[1]] = After[<<r.chunks[e[1]], e[2]>>]],
        mask |-> r.mask]

UpdateLoop(f, entries, Refused, After) ==
  /\ f \in [0 .. Len(entries) -> Descriptors]
  /\ f[0] = [chunks |-> chunks, mask |-> {}]
  /\ \A i \in 1 .. Len(entries) : f[i] = Turn(f[i - 1], i, entries[i], Refused, After)

(***************************************************************************)
(* The loop has a trace.                                                   *)
(***************************************************************************)
LEMMA UpdateTrace ==
  ASSUME NEW entries \in Seq(ChunkIds \X PageIds), chunks \in [ChunkIds -> Descriptor],
         NEW Refused, NEW After \in [Case -> Descriptor]
  PROVE  \E f : UpdateLoop(f, entries, Refused, After)
<1> DEFINE n == Len(entries)
           S == Descriptors
           a == [chunks |-> chunks, mask |-> {}]
           step == [i \in 1 .. n |-> [r \in S |-> Turn(r, i, entries[i], Refused, After)]]
<1>1. n \in Nat /\ \A i \in 1 .. n : entries[i] \in ChunkIds \X PageIds
  OBVIOUS
<1>2. a \in S
  BY DEF Descriptors
<1>3. ASSUME NEW i \in 1 .. n, NEW r \in S
      PROVE  Turn(r, i, entries[i], Refused, After) \in S
  <2>1. PICK e \in ChunkIds \X PageIds : e = entries[i]
    BY <1>1
  <2>2. r.chunks \in [ChunkIds -> Descriptor] /\ r.mask \in SUBSET Nat /\ i \in Nat
    BY DEF Descriptors
  <2>3. <<r.chunks[e[1]], e[2]>> \in Case
    BY <2>2 DEF Case
  <2>4. After[<<r.chunks[e[1]], e[2]>>] \in Descriptor
    BY <2>3
  <2>5. [r.chunks EXCEPT ![e[1]] = After[<<r.chunks[e[1]], e[2]>>]] \in [ChunkIds -> Descriptor]
    BY <2>2, <2>4
  <2> QED BY <2>1, <2>2, <2>5 DEF Turn, Descriptors
<1>4. step \in [1 .. n -> [S -> S]]
  BY <1>3
<1>5. PICK g : IsTrace(g, n, S, a, step)
  <2> HIDE DEF S, step, n, a
  <2> QED BY <1>1, <1>2, <1>4, LoopTrace
<1>6. g \in [0 .. n -> S] /\ g[0] = a /\ \A i \in 1 .. n : g[i] = step[i][g[i - 1]]
  BY <1>5 DEF IsTrace
<1>7. \A i \in 1 .. n : g[i - 1] \in S
  <2> HIDE DEF S, step, n, a
  <2>1. \A i \in 1 .. n : i - 1 \in 0 .. n
    BY <1>1
  <2> QED BY <1>6, <2>1
<1>8. \A i \in 1 .. n : g[i] = Turn(g[i - 1], i, entries[i], Refused, After)
  <2> HIDE DEF S
  <2> QED BY <1>6, <1>7
<1> QED BY <1>6, <1>8 DEF UpdateLoop

WritesRefused == {x \in Case : WriteRefused(x[1], x[2])}
AfterWrite == [x \in Case |-> Written(x[1], x[2])]

(***************************************************************************)
(* A turn of Update, with the fields of the record named.                  *)
(***************************************************************************)
RefusedTurn(r, i) == [r EXCEPT !.mask = @ \cup {i}]
AcceptedTurn(r, c, d) == [r EXCEPT !.chunks[c] = d]

(***************************************************************************)
(* The fields of both kinds of turn.                                       *)
(***************************************************************************)
LEMMA TurnFields ==
  ASSUME NEW r \in Descriptors, NEW i, NEW c, NEW d
  PROVE  /\ RefusedTurn(r, i) = [chunks |-> r.chunks, mask |-> r.mask \cup {i}]
         /\ AcceptedTurn(r, c, d)
              = [chunks |-> [r.chunks EXCEPT ![c] = d], mask |-> r.mask]
<1>1. PICK X, M : r = [chunks |-> X, mask |-> M]
  BY DEF Descriptors
<1>2. r.chunks = X /\ r.mask = M
  BY <1>1
<1>3. [r EXCEPT !.mask = @ \cup {i}] = [chunks |-> X, mask |-> M \cup {i}]
  BY ONLY <1>1
<1>4. [r EXCEPT !.chunks[c] = d] = [chunks |-> [X EXCEPT ![c] = d], mask |-> M]
  BY ONLY <1>1
<1> QED BY <1>2, <1>3, <1>4 DEF RefusedTurn, AcceptedTurn

(***************************************************************************)
(* Update with what refuses a write and what a write leaves behind.        *)
(***************************************************************************)
WriteTurn(r, i, e) ==
  IF r.mask # {} \/ WriteRefused(r.chunks[e[1]], e[2])
  THEN [r EXCEPT !.mask = @ \cup {i}]
  ELSE [r EXCEPT !.chunks[e[1]] = Written(@, e[2])]

(***************************************************************************)
(* Update is where that loop ends.                                         *)
(***************************************************************************)
LEMMA WriteUpdate ==
  ASSUME NEW entries \in Seq(ChunkIds \X PageIds), chunks \in [ChunkIds -> Descriptor],
         AfterWrite \in [Case -> Descriptor]
  PROVE  \E g : /\ UpdateLoop(g, entries, WritesRefused, AfterWrite)
                /\ Update(entries) = g[Len(entries)]
<1> DEFINE n == Len(entries)
           a == [chunks |-> chunks, mask |-> {}]
           f == CHOOSE f : f = [i \in 0 .. n |->
                  IF i = 0 THEN a ELSE WriteTurn(f[i - 1], i, entries[i])]
<1>1. Update(entries) = f[n]
  BY Zenon DEF Update, WriteTurn
<1>2. PICK g : UpdateLoop(g, entries, WritesRefused, AfterWrite)
  BY UpdateTrace
<1>3. /\ g \in [0 .. n -> Descriptors] /\ g[0] = a
      /\ \A i \in 1 .. n : g[i] = Turn(g[i - 1], i, entries[i], WritesRefused, AfterWrite)
  BY <1>2 DEF UpdateLoop
<1>4. n \in Nat
  OBVIOUS
<1>5. ASSUME NEW r \in Descriptors, NEW e \in ChunkIds \X PageIds, NEW i \in Nat
      PROVE  Turn(r, i, e, WritesRefused, AfterWrite) = WriteTurn(r, i, e)
  <2>1. <<r.chunks[e[1]], e[2]>> \in Case
    BY DEF Descriptors, Case
  <2>2. <<r.chunks[e[1]], e[2]>> \in WritesRefused <=> WriteRefused(r.chunks[e[1]], e[2])
    BY <2>1 DEF WritesRefused
  <2>3. AfterWrite[<<r.chunks[e[1]], e[2]>>] = Written(r.chunks[e[1]], e[2])
    BY <2>1 DEF AfterWrite
  <2>4. PICK d : d = Written(r.chunks[e[1]], e[2])
    OBVIOUS
  <2>5. WriteTurn(r, i, e) = IF r.mask # {} \/ WriteRefused(r.chunks[e[1]], e[2])
                            THEN RefusedTurn(r, i) ELSE AcceptedTurn(r, e[1], d)
    BY ONLY <2>4, Zenon DEF WriteTurn, RefusedTurn, AcceptedTurn
  <2>6. /\ RefusedTurn(r, i) = [chunks |-> r.chunks, mask |-> r.mask \cup {i}]
        /\ AcceptedTurn(r, e[1], d)
             = [chunks |-> [r.chunks EXCEPT ![e[1]] = d], mask |-> r.mask]
    BY TurnFields
  <2>7. WriteTurn(r, i, e) = IF r.mask # {} \/ WriteRefused(r.chunks[e[1]], e[2])
                            THEN [chunks |-> r.chunks, mask |-> r.mask \cup {i}]
                            ELSE [chunks |-> [r.chunks EXCEPT ![e[1]] = d], mask |-> r.mask]
    BY ONLY <2>5, <2>6, Zenon
  <2> QED BY <2>2, <2>3, <2>4, <2>7 DEF Turn
<1>6. ASSUME NEW i \in 1 .. n
      PROVE  g[i] = WriteTurn(g[i - 1], i, entries[i])
  <2>1. i - 1 \in 0 .. n /\ i \in Nat /\ entries[i] \in ChunkIds \X PageIds
    BY <1>4
  <2>2. g[i - 1] \in Descriptors
    BY <1>3, <2>1
  <2> QED BY <1>3, <1>5, <2>1, <2>2
<1>7. g = [i \in 0 .. n |-> IF i = 0 THEN a ELSE WriteTurn(g[i - 1], i, entries[i])]
  <2>1. \A i \in 0 .. n : i = 0 \/ i \in 1 .. n
    BY <1>4
  <2> HIDE DEF n, a
  <2> QED BY <1>3, <1>6, <2>1
<1>8. f = [i \in 0 .. n |-> IF i = 0 THEN a ELSE WriteTurn(f[i - 1], i, entries[i])]
  BY <1>7
<1> HIDE DEF f, a
<1> DEFINE T == {i \in 0 .. n : f[i] = g[i]}
<1>9. 0 \in T
  BY <1>3, <1>4, <1>8
<1>10. \A i \in 1 .. n : i - 1 \in T => i \in T
  <2> SUFFICES ASSUME NEW i \in 1 .. n, i - 1 \in T PROVE i \in T
    OBVIOUS
  <2>1. i \in 0 .. n /\ i # 0
    BY <1>4
  <2> HIDE DEF n
  <2>2. f[i] = WriteTurn(f[i - 1], i, entries[i])
    BY <1>8, <2>1
  <2> QED BY <1>6, <2>1, <2>2
<1> HIDE DEF T
<1>11. \A i \in 0 .. n : i \in T
  BY <1>4, <1>9, <1>10, UpTo
<1>12. f[n] = g[n]
  BY <1>4, <1>11 DEF T
<1> QED BY <1>1, <1>2, <1>12

(***************************************************************************)
(* A descriptor that tells the truth of these pages.                       *)
(***************************************************************************)
Describes(d, pages) ==
  /\ pages \in Seq(PageIds) /\ Ascending(pages)
  /\ d.state = "FREE" <=> pages = <<>>
  /\ pages # <<>> =>
       /\ d.wp = (Last(pages) + 1) * WriteSize
       /\ d.state = "CLOSED" <=> Last(pages) = Pages - 1

(***************************************************************************)
(* The write pointer counts blocks, in whole pages.                        *)
(***************************************************************************)
LEMMA BehindThePointer ==
  ASSUME NEW w \in Nat \ {0}, NEW x \in Nat
  PROVE  (x * w) \div w = x
OBVIOUS

(***************************************************************************)
(* A write that is let through is behind the last page.                    *)
(***************************************************************************)
LEMMA OnePageWritten ==
  ASSUME NEW d \in Descriptor, NEW pages, NEW p \in PageIds,
         Describes(d, pages), ~WriteRefused(d, p)
  PROVE  /\ Written(d, p) \in Descriptor
         /\ Describes(Written(d, p), Append(pages, p))
<1>1. PICK q : q = Append(pages, p)
  OBVIOUS
<1>2. /\ pages \in Seq(PageIds) /\ Len(pages) \in Nat /\ q \in Seq(PageIds)
      /\ Len(q) = Len(pages) + 1 /\ q[Len(pages) + 1] = p
      /\ \A i \in 1 .. Len(pages) : q[i] = pages[i]
      /\ DOMAIN pages = 1 .. Len(pages) /\ DOMAIN q = 1 .. Len(pages) + 1
  BY <1>1 DEF Describes
<1>3. Last(q) = p /\ q # <<>>
  BY <1>2 DEF Last
<1>4. Pages \in Nat \ {0} /\ WriteSize \in Nat \ {0} /\ p \in Nat
  BY OpenChannelAssumption DEF PageIds
<1>5. (p + 1) * WriteSize \in Nat
  BY <1>4
<1>6. Written(d, p) = [state |-> IF p = Pages - 1 THEN "CLOSED" ELSE "OPEN",
                       wp |-> (p + 1) * WriteSize]
  BY DEF Written
<1>7. Written(d, p) \in Descriptor
  BY <1>5, <1>6 DEF Descriptor
<1>8. \A i \in 1 .. Len(pages) : pages[i] < p
  <2>1. CASE pages = <<>>
    BY <1>2, <2>1
  <2>2. CASE pages # <<>>
    <3>1. PICK l \in Nat : l = Last(pages) /\ l = pages[Len(pages)]
      <4>1. Len(pages) \in 1 .. Len(pages)
        BY <1>2, <2>2
      <4>2. pages[Len(pages)] \in PageIds
        BY <1>2, <4>1
      <4> QED BY <1>4, <4>2 DEF Last, PageIds
    <3>2. d.state = "OPEN" /\ d.wp = (l + 1) * WriteSize
      BY <2>2, <3>1 DEF Describes, Descriptor, WriteRefused
    <3>3. d.wp \div WriteSize = l + 1
      <4>1. l + 1 \in Nat
        BY <3>1
      <4> QED BY <1>4, <3>2, <4>1, BehindThePointer
    <3>4. l < p
      BY <1>4, <3>1, <3>2, <3>3 DEF WriteRefused
    <3>5. \A i \in 1 .. Len(pages) : pages[i] <= l
      <4> TAKE i \in 1 .. Len(pages)
      <4> DEFINE z == Len(pages)
      <4>0. z \in Nat /\ i \in 1 .. z /\ pages[i] \in Nat /\ z \in DOMAIN pages
            /\ i \in DOMAIN pages
        BY <1>2, <1>4 DEF PageIds
      <4>1. CASE i = Len(pages)
        BY <3>1, <4>1
      <4>2. CASE i < Len(pages)
        <5>1. pages[i] < pages[Len(pages)]
          BY <4>0, <4>2 DEF Describes, Ascending
        <5> QED BY <3>1, <4>0, <5>1
      <4> HIDE DEF z
      <4>3. i = z \/ i < z
        BY <4>0
      <4> QED BY <4>1, <4>2, <4>3 DEF z
    <3> QED BY <1>2, <1>4, <3>1, <3>4, <3>5 DEF PageIds
  <2> QED BY <2>1, <2>2
<1>9. Ascending(q)
  <2> SUFFICES ASSUME NEW i \in 1 .. Len(pages) + 1, NEW j \in 1 .. Len(pages) + 1, i < j
               PROVE  q[i] < q[j]
    BY <1>2 DEF Ascending
  <2>1. i \in 1 .. Len(pages)
    BY <1>2
  <2>2. CASE j = Len(pages) + 1
    BY <1>2, <1>8, <2>1, <2>2
  <2>3. CASE j # Len(pages) + 1
    <3>1. j \in 1 .. Len(pages)
      BY <1>2, <2>3
    <3> QED BY <1>2, <2>1, <3>1 DEF Describes, Ascending
  <2> QED BY <2>2, <2>3
<1> QED BY <1>1, <1>2, <1>3, <1>6, <1>7, <1>9 DEF Describes

(***************************************************************************)
(* A reset leaves a chunk without pages.                                   *)
(***************************************************************************)
LEMMA OneChunkErased ==
  Erased \in Descriptor /\ Describes(Erased, <<>>)
<1>1. PICK s : s = <<>>
  OBVIOUS
<1>2. s \in Seq(PageIds) /\ Ascending(s)
  BY <1>1 DEF Ascending
<1> QED BY <1>1, <1>2 DEF Erased, Descriptor, Describes

(***************************************************************************)
(* What is in the mask when the loop is done was put there in its turn.    *)
(***************************************************************************)
RefusedAt(g, i, entries, Refused) ==
  g[i - 1].mask # {} \/ <<g[i - 1].chunks[entries[i][1]], entries[i][2]>> \in Refused

(***************************************************************************)
(* The mask is what was refused in its turn.                               *)
(***************************************************************************)
LEMMA MaskIsRefused ==
  ASSUME NEW entries, Len(entries) \in Nat, NEW Refused, NEW After, NEW g,
         UpdateLoop(g, entries, Refused, After)
  PROVE  \A i \in 1 .. Len(entries) :
           i \in g[Len(entries)].mask <=> RefusedAt(g, i, entries, Refused)
<1> DEFINE n == Len(entries)
           T == {j \in 0 .. n : \A i \in 1 .. n :
                   i \in g[j].mask <=> (i <= j /\ RefusedAt(g, i, entries, Refused))}
<1>1. g[0].mask = {}
  BY DEF UpdateLoop
<1>2. 0 \in T
  BY <1>1
<1>3. ASSUME NEW j \in 1 .. n, j - 1 \in T
      PROVE  j \in T
  <2>1. g[j].mask = IF RefusedAt(g, j, entries, Refused)
                    THEN g[j - 1].mask \cup {j} ELSE g[j - 1].mask
    <3>1. g[j] = Turn(g[j - 1], j, entries[j], Refused, After)
      BY DEF UpdateLoop
    <3>2. PICK X : X = [g[j - 1].chunks EXCEPT ![entries[j][1]] =
                          After[<<g[j - 1].chunks[entries[j][1]], entries[j][2]>>]]
      OBVIOUS
    <3>3. g[j] = IF RefusedAt(g, j, entries, Refused)
                 THEN [chunks |-> g[j - 1].chunks, mask |-> g[j - 1].mask \cup {j}]
                 ELSE [chunks |-> X, mask |-> g[j - 1].mask]
      BY ONLY <3>1, <3>2 DEF Turn, RefusedAt
    <3> QED BY ONLY <3>3
  <2>2. \A i \in 1 .. n : i \in g[j - 1].mask
                            <=> (i <= j - 1 /\ RefusedAt(g, i, entries, Refused))
    BY <1>3
  <2>3. \A i \in 1 .. n : i \in g[j].mask <=> (i <= j /\ RefusedAt(g, i, entries, Refused))
    BY <2>1, <2>2
  <2> QED BY <2>3
<1> HIDE DEF T
<1>4. \A j \in 1 .. n : j - 1 \in T => j \in T
  BY <1>3
<1>5. \A j \in 0 .. n : j \in T
  BY <1>2, <1>4, UpTo
<1>6. n \in T
  BY <1>5
<1>7. \A i \in 1 .. n : i \in g[n].mask
                          <=> (i <= n /\ RefusedAt(g, i, entries, Refused))
  BY <1>6 DEF T
<1> HIDE DEF n
<1>8. \A i \in 1 .. n : i <= n
  OBVIOUS
<1> QED BY <1>7, <1>8 DEF n

(***************************************************************************)
(* The whole loop: if the descriptors of some of the chunks K tell the     *)
(* truth and one accepted entry leaves its descriptor true of one page     *)
(* more, they tell the truth of the flash as the accepted entries will     *)
(* leave it.  The mask must have a bit for each entry.                     *)
(***************************************************************************)
OneEntryDescribes(op, K, Refused, After) ==
  \A k \in K, d \in Descriptor, pages \in Seq(PageIds), p \in PageIds :
    <<d, p>> \notin Refused /\ Describes(d, Programmed(op, flash[k], pages))
      => Describes(After[<<d, p>>], Programmed(op, flash[k], Append(pages, p)))

(***************************************************************************)
(* The whole loop leaves the descriptors true.                             *)
(***************************************************************************)
LEMMA LoopDescribes ==
  ASSUME NEW K \in SUBSET ChunkIds, NEW entries \in Seq(K \X PageIds),
         Len(entries) <= MaskBits,
         NEW op, NEW Refused, NEW After \in [Case -> Descriptor],
         OneEntryDescribes(op, K, Refused, After),
         NEW g, UpdateLoop(g, entries, Refused, After),
         NEW accepted, accepted = Accepted(entries, g[Len(entries)].mask),
         NEW new, new = g[Len(entries)].chunks,
         NEW D \in SUBSET K,
         \A k \in D : Describes(chunks[k], Programmed(op, flash[k], <<>>))
  PROVE  /\ new \in [ChunkIds -> Descriptor]
         /\ accepted \in Seq(K \X PageIds)
         /\ \A k \in D : Describes(new[k], Programmed(op, flash[k], PagesOf(k, accepted)))
         /\ \A k \in ChunkIds \ K : new[k] = chunks[k]
<1> DEFINE n == Len(entries)
           mask == g[n].mask
<1>1. n \in Nat /\ n <= MaskBits /\ MaskBits \in Nat
  BY OpenChannelAssumption
<1>2. PICK f : AcceptLoop(f, entries, mask, K \X PageIds) /\ accepted = f[n]
  BY AcceptTrace
<1>3. \A i \in 1 .. n : i \in mask <=> RefusedAt(g, i, entries, Refused)
  BY <1>1, MaskIsRefused
<1> HIDE DEF mask
<1>4. \A i \in 0 .. n : f[i] \in Seq(K \X PageIds)
  BY <1>2 DEF AcceptLoop
<1>5. \A i \in 1 .. n :
        f[i] = IF RefusedAt(g, i, entries, Refused) THEN f[i - 1]
               ELSE Append(f[i - 1], entries[i])
  <2> TAKE i \in 1 .. n
  <2>1. f[i] = IF Removed(i, mask) THEN f[i - 1] ELSE Append(f[i - 1], entries[i])
    BY <1>2 DEF AcceptLoop
  <2>2. Removed(i, mask) <=> RefusedAt(g, i, entries, Refused)
    BY <1>1, <1>3 DEF Removed
  <2> QED BY <2>1, <2>2
<1>6. \A i \in 0 .. n : g[i].chunks \in [ChunkIds -> Descriptor]
  BY DEF UpdateLoop, Descriptors
<1>7. \A i \in 1 .. n : entries[i] \in K \X PageIds
  OBVIOUS
<1>8. f[0] = <<>> /\ g[0].chunks = chunks
  BY <1>2 DEF AcceptLoop, UpdateLoop
<1> HIDE DEF n
<1> DEFINE T == {i \in 0 .. n :
                   /\ \A k \in D : Describes(g[i].chunks[k],
                                     Programmed(op, flash[k], PagesOf(k, f[i])))
                   /\ \A k \in ChunkIds \ K : g[i].chunks[k] = chunks[k]}
<1>9. 0 \in T
  <2>1. \A k : PagesOf(k, f[0]) = <<>>
    BY <1>8, PagesOfNone
  <2> QED BY <1>1, <1>8, <2>1
<1>10. ASSUME NEW i \in 1 .. n, i - 1 \in T
       PROVE  i \in T
  <2>1. i - 1 \in 0 .. n /\ i \in 0 .. n
    BY <1>1
  <2>2. PICK e \in K \X PageIds : e = entries[i]
    BY <1>7
  <2>3. e[1] \in K /\ e[1] \in ChunkIds /\ e[2] \in PageIds
    OBVIOUS
  <2>4. PICK old : old = g[i - 1].chunks /\ old \in [ChunkIds -> Descriptor]
    BY <1>6, <2>1
  <2>5. PICK s : s = f[i - 1] /\ s \in Seq(K \X PageIds)
    BY <1>4, <2>1
  <2>6. /\ \A k \in D : Describes(old[k], Programmed(op, flash[k], PagesOf(k, s)))
        /\ \A k \in ChunkIds \ K : old[k] = chunks[k]
    BY <1>10, <2>4, <2>5
  <2>7. g[i] = Turn(g[i - 1], i, e, Refused, After)
    BY <2>2 DEF UpdateLoop, n
  <2>8. CASE RefusedAt(g, i, entries, Refused)
    <3>1. g[i] = [chunks |-> old, mask |-> g[i - 1].mask \cup {i}]
      BY <2>2, <2>4, <2>7, <2>8 DEF Turn, RefusedAt
    <3>2. g[i].chunks = old
      BY <3>1
    <3>3. f[i] = s
      BY <1>5, <2>5, <2>8
    <3> QED BY <2>1, <2>6, <3>2, <3>3
  <2>9. CASE ~RefusedAt(g, i, entries, Refused)
    <3>1. PICK d : d = After[<<old[e[1]], e[2]>>]
      OBVIOUS
    <3>2. g[i] = [chunks |-> [old EXCEPT ![e[1]] = d], mask |-> g[i - 1].mask]
      BY <2>2, <2>4, <2>7, <2>9, <3>1 DEF Turn, RefusedAt
    <3>3. g[i].chunks = [old EXCEPT ![e[1]] = d]
      BY <3>2
    <3>4. f[i] = Append(s, e)
      BY <1>5, <2>2, <2>5, <2>9
    <3>5. <<old[e[1]], e[2]>> \notin Refused
      BY <2>2, <2>4, <2>9 DEF RefusedAt
    <3>6. \A k : /\ PagesOf(k, f[i])
                      = IF e[1] = k THEN Append(PagesOf(k, s), e[2]) ELSE PagesOf(k, s)
                 /\ PagesOf(k, s) \in Seq(PageIds)
      <4> TAKE k
      <4>1. /\ PagesOf(k, Append(s, e))
                  = IF e[1] = k THEN Append(PagesOf(k, s), e[2]) ELSE PagesOf(k, s)
            /\ PagesOf(k, s) \in Seq(PageIds)
        <5>1. s \in Seq(K \X PageIds) /\ e \in K \X PageIds
          BY <2>5
        <5> QED BY ONLY <5>1, PagesOfAppend, Zenon
      <4> QED BY <3>4, <4>1
    <3>7. e[1] \in D =>
            Describes(d, Programmed(op, flash[e[1]], Append(PagesOf(e[1], s), e[2])))
      <4>1. old[e[1]] \in Descriptor
        BY <2>3, <2>4
      <4> QED BY <2>3, <2>6, <3>1, <3>5, <3>6, <4>1 DEF OneEntryDescribes
    <3>8. ASSUME NEW k \in D
          PROVE  Describes(g[i].chunks[k], Programmed(op, flash[k], PagesOf(k, f[i])))
      <4>1. CASE k = e[1]
        <5>1. g[i].chunks[k] = d
          BY <2>3, <2>4, <3>3, <4>1
        <5> QED BY <3>6, <3>7, <4>1, <5>1
      <4>2. CASE k # e[1]
        <5>1. g[i].chunks[k] = old[k]
          BY <2>3, <2>4, <3>3, <4>2
        <5> QED BY <2>6, <3>6, <4>2, <5>1
      <4> QED BY <4>1, <4>2
    <3>9. \A k \in ChunkIds \ K : g[i].chunks[k] = chunks[k]
      BY <2>3, <2>4, <2>6, <3>3
    <3> QED BY <2>1, <3>8, <3>9
  <2> QED BY <2>8, <2>9
<1> HIDE DEF T
<1>11. \A i \in 1 .. n : i - 1 \in T => i \in T
  BY <1>10
<1>12. \A i \in 0 .. n : i \in T
  BY <1>1, <1>9, <1>11, UpTo
<1>13. n \in 0 .. n
  BY <1>1
<1>14. n \in T
  BY <1>12, <1>13
<1>15. accepted = f[n] /\ new = g[n].chunks
  BY <1>2 DEF n
<1> QED BY <1>4, <1>6, <1>13, <1>14, <1>15 DEF T

(***************************************************************************)
(* An entry of a write.                                                    *)
(***************************************************************************)
LEMMA WriteDescribes ==
  ASSUME NEW op \in {"write", "vectorWrite"}, NEW K,
         \A k \in K : flash[k] \in Seq(PageIds)
  PROVE  /\ AfterWrite \in [Case -> Descriptor]
         /\ OneEntryDescribes(op, K, WritesRefused, AfterWrite)
<1>1. ASSUME NEW x \in Case
      PROVE  Written(x[1], x[2]) \in Descriptor
  <2>1. x[2] \in Nat /\ WriteSize \in Nat
    BY OpenChannelAssumption DEF Case, PageIds
  <2>2. (x[2] + 1) * WriteSize \in Nat
    BY <2>1
  <2> QED BY <2>2 DEF Written, Descriptor
<1>2. AfterWrite \in [Case -> Descriptor]
  BY <1>1 DEF AfterWrite
<1>3. ASSUME NEW k \in K, NEW d \in Descriptor, NEW pages \in Seq(PageIds),
             NEW p \in PageIds, <<d, p>> \notin WritesRefused,
             Describes(d, Programmed(op, flash[k], pages))
      PROVE  Describes(AfterWrite[<<d, p>>], Programmed(op, flash[k], Append(pages, p)))
  <2>1. <<d, p>> \in Case
    BY DEF Case
  <2>2. ~WriteRefused(d, p) /\ AfterWrite[<<d, p>>] = Written(d, p)
    BY <1>3, <2>1 DEF WritesRefused, AfterWrite
  <2>3. PICK old : old = flash[k] /\ old \in Seq(PageIds)
    OBVIOUS
  <2>4. \A s : Programmed(op, flash[k], s) = old \o s
    BY <2>3 DEF Programmed
  <2>5. old \o Append(pages, p) = Append(old \o pages, p)
    <3>1. old \in Seq(PageIds)
      BY <2>3
    <3> QED BY ONLY <3>1, pages \in Seq(PageIds), p \in PageIds, ConcatAppend
  <2>6. Describes(Written(d, p), Append(old \o pages, p))
    BY <1>3, <2>2, <2>4, OnePageWritten
  <2> QED BY <2>2, <2>4, <2>5, <2>6
<1> QED BY <1>2, <1>3 DEF OneEntryDescribes

(***************************************************************************)
(* The commands of version 2.0, and the range a command by range works on: *)
(* it may miss some of its blocks, but names no others.  The mask has a    *)
(* bit for each page that may be refused.                                  *)
(***************************************************************************)
ChunkCommand(c) ==
  /\ c.op \in {"read", "write", "vectorRead", "vectorWrite", "vectorReset"}
  /\ c.op \in {"read", "write"} =>
       /\ RangeList(c) \in Seq(Blocks)
       /\ ChunksOf(RangeList(c)) \subseteq ChunksOf(c.lbas)
  /\ c.op = "write" => Len(convertUnit(RangeList(c), FALSE)) <= MaskBits
  /\ c.op \in {"vectorWrite", "vectorReset"} => Len(c.lbas) <= MaskBits

(***************************************************************************)
(* Between the descriptors and the flash a command waits for a core: the   *)
(* descriptors of its chunks tell what it will have made of the flash, and *)
(* those of other chunks what the flash is.  Chunks that a reset set FREE  *)
(* without erasing them are left out.                                      *)
(***************************************************************************)
Waiting == {i \in DOMAIN cmds : cmds[i].pc = "core"}

ChunkTypesOK ==
  /\ chunks \in [ChunkIds -> Descriptor]
  /\ flash \in [ChunkIds -> Seq(PageIds)]
  /\ \A i \in DOMAIN cmds : ChunkCommand(cmds[i])

WaitingDescribed ==
  \A i \in Waiting :
    /\ cmds[i].entries \in Seq(ChunksOf(cmds[i].lbas) \X PageIds)
    /\ \A k \in ChunksOf(cmds[i].lbas) \ unerased :
         Describes(chunks[k],
                   Programmed(cmds[i].op, flash[k], PagesOf(k, cmds[i].entries)))

OthersDescribed ==
  \A k \in ChunkIds \ unerased :
    (\A i \in Waiting : k \notin ChunksOf(cmds[i].lbas)) => Describes(chunks[k], flash[k])

DescInv ==
  version = "2.0" => ChunkTypesOK /\ WaitingDescribed /\ OthersDescribed


(***************************************************************************)
(* All chunks are free and erased first.                                   *)
(***************************************************************************)
LEMMA InitDescInv == Init => DescInv
<1> SUFFICES ASSUME Init PROVE DescInv
  OBVIOUS
<1>1. cmds = <<>> /\ DOMAIN cmds = {} /\ Waiting = {}
  BY DEF Init, Waiting
<1>2. PICK s : s = <<>>
  OBVIOUS
<1>3. s \in Seq(PageIds) /\ Ascending(s)
  BY <1>2 DEF Ascending
<1>4. chunks = [c \in ChunkIds |-> [state |-> "FREE", wp |-> 0]] /\ flash = [c \in ChunkIds |-> s]
  BY <1>2 DEF Init
<1>5. ChunkTypesOK
  BY <1>1, <1>3, <1>4 DEF ChunkTypesOK, Descriptor
<1>6. \A k \in ChunkIds : Describes(chunks[k], flash[k])
  BY <1>2, <1>3, <1>4 DEF Describes
<1> QED BY <1>1, <1>5, <1>6 DEF DescInv, WaitingDescribed, OthersDescribed

(***************************************************************************)
(* Chunks and flash stay, and so do the commands that wait for a core.     *)
(***************************************************************************)
LEMMA NoneWaits ==
  ASSUME DescInv, version' = version, chunks' = chunks, flash' = flash,
         unerased' = unerased,
         version = "2.0" => \A j \in DOMAIN cmds' : ChunkCommand(cmds'[j]),
         Waiting' = Waiting, \A j \in Waiting : cmds'[j] = cmds[j]
  PROVE  DescInv'
BY DEF DescInv, ChunkTypesOK, WaitingDescribed, OthersDescribed

(***************************************************************************)
(* The descriptors of a command that was just fetched tell the truth.      *)
(***************************************************************************)
LEMMA FetchedDescribed ==
  ASSUME OCInv, DescInv, version = "2.0", NEW i \in DOMAIN cmds,
         cmds[i].pc = "fetch"
  PROVE  \A k \in ChunksOf(cmds[i].lbas) :
           /\ k \in ChunkIds /\ flash[k] \in Seq(PageIds)
           /\ k \notin unerased => Describes(chunks[k], flash[k])
<1> TAKE k \in ChunksOf(cmds[i].lbas)
<1>1. k \in ChunkIds
  BY ParsedBlock DEF OCInv, TypesOK, IsCommand, ChunksOf
<1>2. \A j \in Waiting : k \notin ChunksOf(cmds[j].lbas)
  <2> TAKE j \in Waiting
  <2>1. i \in Outstanding /\ j \in Outstanding /\ i # j
    BY DEF Waiting, Outstanding
  <2> QED BY <2>1 DEF OCInv, Apart
<1>3. flash[k] \in Seq(PageIds)
  BY <1>1 DEF DescInv, ChunkTypesOK
<1> QED BY <1>1, <1>2, <1>3 DEF DescInv, OthersDescribed

(***************************************************************************)
(* A command stays one of version 2.0 whatever becomes of its other fields.*)
(***************************************************************************)
LEMMA SameChunkCommand ==
  ASSUME NEW c, NEW x, ChunkCommand(c), x.op = c.op, x.lbas = c.lbas
  PROVE  ChunkCommand(x)
BY DEF ChunkCommand, RangeList

(***************************************************************************)
(* Command i begins to wait for a core.                                    *)
(***************************************************************************)
LEMMA BeginsToWait ==
  ASSUME OCInv, DescInv, version = "2.0", NEW i \in DOMAIN cmds,
         cmds[i].pc = "fetch", version' = version, flash' = flash,
         NEW x, IsCommand(x), x.op = cmds[i].op, x.lbas = cmds[i].lbas, x.pc = "core",
         cmds' = [cmds EXCEPT ![i] = x],
         NEW K, K = ChunksOf(cmds[i].lbas),
         x.entries \in Seq(K \X PageIds),
         chunks' \in [ChunkIds -> Descriptor],
         \A k \in K \ unerased' :
           Describes(chunks'[k], Programmed(x.op, flash[k], PagesOf(k, x.entries))),
         \A k \in ChunkIds \ K :
           chunks'[k] = chunks[k] /\ (k \in unerased' <=> k \in unerased)
  PROVE  DescInv'
<1>1. Goes(i, x)
  BY DEF Goes, Outstanding
<1>2. /\ DOMAIN cmds' = DOMAIN cmds /\ cmds'[i] = x
      /\ \A j \in DOMAIN cmds : j # i => cmds'[j] = cmds[j]
  BY <1>1, GoesFacts DEF OCInv
<1>3. Waiting' = Waiting \cup {i} /\ i \notin Waiting
  BY <1>2 DEF Waiting
<1>4. ASSUME NEW j \in Waiting, NEW k \in ChunksOf(cmds[j].lbas)
      PROVE  k \in ChunkIds \ K
  <2>1. i \in Outstanding /\ j \in Outstanding /\ i # j /\ j \in DOMAIN cmds
    BY DEF Waiting, Outstanding
  <2>2. k \notin K
    BY <2>1 DEF OCInv, Apart
  <2>3. k \in ChunkIds
    BY <2>1, ParsedBlock DEF OCInv, TypesOK, IsCommand, ChunksOf
  <2> QED BY <2>2, <2>3
<1>5. ChunkTypesOK'
  BY <1>2, SameChunkCommand DEF DescInv, ChunkTypesOK
<1>6. WaitingDescribed'
  <2> SUFFICES ASSUME NEW j \in Waiting'
               PROVE  /\ cmds'[j].entries \in Seq(ChunksOf(cmds'[j].lbas) \X PageIds)
                      /\ \A k \in ChunksOf(cmds'[j].lbas) \ unerased' :
                           Describes(chunks'[k],
                             Programmed(cmds'[j].op, flash[k], PagesOf(k, cmds'[j].entries)))
    BY DEF WaitingDescribed
  <2>1. CASE j = i
    BY <1>2, <2>1
  <2>2. CASE j # i
    <3>1. j \in Waiting /\ cmds'[j] = cmds[j]
      BY <1>2, <1>3, <2>2 DEF Waiting
    <3>2. \A k \in ChunksOf(cmds[j].lbas) :
            chunks'[k] = chunks[k] /\ (k \in unerased' <=> k \in unerased)
      BY <1>4, <3>1
    <3> QED BY <3>1, <3>2 DEF DescInv, WaitingDescribed
  <2> QED BY <2>1, <2>2
<1>7. OthersDescribed'
  <2> SUFFICES ASSUME NEW k \in ChunkIds \ unerased',
                      \A j \in Waiting' : k \notin ChunksOf(cmds'[j].lbas)
               PROVE  Describes(chunks'[k], flash[k])
    BY DEF OthersDescribed
  <2>1. k \notin K
    BY <1>2, <1>3
  <2>2. \A j \in Waiting : k \notin ChunksOf(cmds[j].lbas)
    BY <1>2, <1>3 DEF Waiting
  <2> QED BY <2>1, <2>2 DEF DescInv, OthersDescribed
<1> QED BY <1>5, <1>6, <1>7 DEF DescInv

(***************************************************************************)
(* Without pages nothing is done to the flash.                             *)
(***************************************************************************)
LEMMA NothingProgrammed ==
  ASSUME NEW op, NEW old \in Seq(PageIds)
  PROVE  Programmed(op, old, <<>>) = old
<1>1. old \o <<>> = old
  BY ConcatEmptySeq
<1> QED BY <1>1 DEF Programmed

(***************************************************************************)
(* What is programmed are pages.                                           *)
(***************************************************************************)
LEMMA ProgrammedPages ==
  ASSUME NEW op, NEW old \in Seq(PageIds), NEW pages \in Seq(PageIds)
  PROVE  Programmed(op, old, pages) \in Seq(PageIds)
<1>1. old \o pages \in Seq(PageIds)
  OBVIOUS
<1>2. PICK s : s = <<>>
  OBVIOUS
<1>3. s \in Seq(PageIds)
  BY <1>2
<1> QED BY <1>1, <1>2, <1>3 DEF Programmed

(***************************************************************************)
(* The same for chunks among which are those of the list.                  *)
(***************************************************************************)
LEMMA ConvertedWithin ==
  ASSUME NEW list \in Seq(Blocks), NEW block \in BOOLEAN,
         NEW K, ChunksOf(list) \subseteq K, NEW entries, entries = convertUnit(list, block)
  PROVE  entries \in Seq(K \X PageIds) /\ Len(entries) <= Len(list)
<1>1. entries \in Seq(ChunksOf(list) \X PageIds) /\ Len(entries) <= Len(list)
  BY ConvertedList
<1>2. ChunksOf(list) \X PageIds \subseteq K \X PageIds
  OBVIOUS
<1>3. PICK E, F : E = ChunksOf(list) \X PageIds /\ F = K \X PageIds
  OBVIOUS
<1>4. entries \in Seq(F)
  BY ONLY <1>1, <1>2, <1>3
<1> QED BY <1>1, <1>3, <1>4

(***************************************************************************)
(* A read refuses nothing and leaves the chunks alone.                     *)
(***************************************************************************)
LEMMA ReadWaits ==
  ASSUME OCInv, DescInv, version = "2.0", NEW i \in DOMAIN cmds,
         cmds[i].pc = "fetch", cmds[i].op \in {"read", "vectorRead"},
         NEW list \in Seq(Blocks), ChunksOf(list) \subseteq ChunksOf(cmds[i].lbas),
         readInternal(i, list)
  PROVE  DescInv'
<1> DEFINE K == ChunksOf(cmds[i].lbas)
<1>1. PICK entries : entries = convertUnit(list, FALSE)
  OBVIOUS
<1>2. entries \in Seq(K \X PageIds)
  BY <1>1, ConvertedWithin
<1>3. PICK e : e = Accepted(entries, {})
  OBVIOUS
<1>4. e \in Seq(K \X PageIds)
  <2>1. PICK f : AcceptLoop(f, entries, {}, K \X PageIds) /\ e = f[Len(entries)]
    BY <1>2, <1>3, AcceptTrace
  <2>2. Len(entries) \in 0 .. Len(entries)
    BY <1>2
  <2> QED BY <2>1, <2>2 DEF AcceptLoop
<1>5. PICK x : x = WithMask(cmds[i], e, {})
  OBVIOUS
<1>6. IsCommand(cmds[i])
  BY DEF OCInv, TypesOK
<1>7. IsCommand(x) /\ x.op = cmds[i].op /\ x.lbas = cmds[i].lbas /\ x.pc = "core"
      /\ x.entries = e
  BY <1>5, <1>6, MaskReplaced
<1>8. /\ cmds' = [cmds EXCEPT ![i] = x] /\ version' = version /\ flash' = flash
      /\ chunks' = chunks /\ unerased' = unerased
  BY <1>1, <1>3, <1>5 DEF readInternal, WaitForCore, WithMask
<1>9. \A k \in K \ unerased : Describes(chunks[k], Programmed(x.op, flash[k], PagesOf(k, e)))
  <2>1. \A k : Programmed(x.op, flash[k], PagesOf(k, e)) = flash[k]
    BY <1>7 DEF Programmed
  <2> QED BY <2>1, FetchedDescribed
<1>10. chunks' \in [ChunkIds -> Descriptor]
  BY <1>8 DEF DescInv, ChunkTypesOK
<1>11. PICK L : L = K
  OBVIOUS
<1> HIDE DEF K
<1> QED BY <1>4, <1>7, <1>8, <1>9, <1>10, <1>11, BeginsToWait DEF K

(***************************************************************************)
(* What a write is accepted of waits for a core, and its chunks are        *)
(* updated.                                                                *)
(***************************************************************************)
LEMMA UpdateWaits ==
  ASSUME OCInv, DescInv, version = "2.0", NEW i \in DOMAIN cmds,
         cmds[i].pc = "fetch", NEW K, K = ChunksOf(cmds[i].lbas),
         NEW entries \in Seq(K \X PageIds), Len(entries) <= MaskBits,
         NEW Refused, NEW After \in [Case -> Descriptor],
         OneEntryDescribes(cmds[i].op, K, Refused, After),
         NEW g, UpdateLoop(g, entries, Refused, After),
         chunks' = g[Len(entries)].chunks, unerased' = unerased,
         WaitForCore(i, entries, g[Len(entries)].mask)
  PROVE  DescInv'
<1>1. PICK e : e = Accepted(entries, g[Len(entries)].mask)
  OBVIOUS
<1>2. PICK x : x = WithMask(cmds[i], e, g[Len(entries)].mask)
  OBVIOUS
<1>3. IsCommand(cmds[i])
  BY DEF OCInv, TypesOK
<1>4. IsCommand(x) /\ x.op = cmds[i].op /\ x.lbas = cmds[i].lbas /\ x.pc = "core"
      /\ x.entries = e
  BY <1>2, <1>3, MaskReplaced
<1>5. cmds' = [cmds EXCEPT ![i] = x] /\ version' = version /\ flash' = flash
  BY <1>1, <1>2 DEF WaitForCore, WithMask
<1>6. PICK D : D = K \ unerased
  OBVIOUS
<1>10. D \in SUBSET K /\ K \in SUBSET ChunkIds
  BY <1>6, FetchedDescribed
<1>11. \A k \in D : Describes(chunks[k], Programmed(cmds[i].op, flash[k], <<>>))
  <2> TAKE k \in D
  <2>1. k \in K /\ k \notin unerased
    BY <1>6
  <2>2. flash[k] \in Seq(PageIds) /\ Describes(chunks[k], flash[k])
    BY <2>1, FetchedDescribed
  <2>3. Programmed(cmds[i].op, flash[k], <<>>) = flash[k]
    BY <2>2, NothingProgrammed
  <2> QED BY <2>2, <2>3
<1>7. PICK new : new = g[Len(entries)].chunks
  OBVIOUS
<1>8. /\ new \in [ChunkIds -> Descriptor] /\ e \in Seq(K \X PageIds)
      /\ \A k \in D : Describes(new[k], Programmed(cmds[i].op, flash[k], PagesOf(k, e)))
      /\ \A k \in ChunkIds \ K : new[k] = chunks[k]
  <2>1. PICK op : op = cmds[i].op
    OBVIOUS
  <2>2. \A k \in D : Describes(chunks[k], Programmed(op, flash[k], <<>>))
    BY <1>11, <2>1
  <2>3. OneEntryDescribes(op, K, Refused, After)
    BY <2>1
  <2>4. /\ new \in [ChunkIds -> Descriptor] /\ e \in Seq(K \X PageIds)
        /\ \A k \in D : Describes(new[k], Programmed(op, flash[k], PagesOf(k, e)))
        /\ \A k \in ChunkIds \ K : new[k] = chunks[k]
    <3>1. /\ K \in SUBSET ChunkIds /\ entries \in Seq(K \X PageIds)
          /\ Len(entries) <= MaskBits /\ After \in [Case -> Descriptor]
          /\ UpdateLoop(g, entries, Refused, After) /\ D \in SUBSET K
      BY <1>10
    <3> QED BY ONLY <3>1, <1>1, <1>7, <2>2, <2>3, LoopDescribes, SMTT(60)
  <2> QED BY <2>1, <2>4
<1>9. /\ chunks' = new
      /\ \A k \in K \ unerased' : k \in D
  BY <1>6, <1>7
<1>12. \A k \in K \ unerased' :
         Describes(chunks'[k], Programmed(x.op, flash[k], PagesOf(k, x.entries)))
  BY <1>4, <1>8, <1>9
<1>13. /\ chunks' \in [ChunkIds -> Descriptor] /\ x.entries \in Seq(K \X PageIds)
       /\ \A k \in ChunkIds \ K :
            chunks'[k] = chunks[k] /\ (k \in unerased' <=> k \in unerased)
  BY <1>4, <1>8, <1>9
<1> QED BY <1>4, <1>5, <1>12, <1>13, BeginsToWait

(***************************************************************************)
(* A write, by range or of a list.                                         *)
(***************************************************************************)
LEMMA WriteWaits ==
  ASSUME OCInv, DescInv, version = "2.0", NEW i \in DOMAIN cmds,
         cmds[i].pc = "fetch", cmds[i].op \in {"write", "vectorWrite"},
         NEW list \in Seq(Blocks), ChunksOf(list) \subseteq ChunksOf(cmds[i].lbas),
         Len(convertUnit(list, FALSE)) <= MaskBits, writeInternal(i, list)
  PROVE  DescInv'
<1>1. PICK K : K = ChunksOf(cmds[i].lbas)
  OBVIOUS
<1>2. PICK entries : entries = convertUnit(list, FALSE)
  OBVIOUS
<1>3. entries \in Seq(K \X PageIds) /\ Len(entries) <= Len(list)
  BY <1>1, <1>2, ConvertedWithin
<1>4. Len(entries) <= MaskBits
  BY <1>2
<1>5. K \subseteq ChunkIds /\ \A k \in K : flash[k] \in Seq(PageIds)
  BY <1>1, FetchedDescribed
<1>6. /\ AfterWrite \in [Case -> Descriptor]
      /\ OneEntryDescribes(cmds[i].op, K, WritesRefused, AfterWrite)
  BY <1>5, WriteDescribes
<1>7. entries \in Seq(ChunkIds \X PageIds)
  <2>1. K \X PageIds \subseteq ChunkIds \X PageIds
    BY <1>5
  <2>2. PICK E, F : E = K \X PageIds /\ F = ChunkIds \X PageIds
    OBVIOUS
  <2>3. entries \in Seq(F)
    BY ONLY <1>3, <2>1, <2>2
  <2> QED BY <2>2, <2>3
<1>8. chunks \in [ChunkIds -> Descriptor]
  BY DEF DescInv, ChunkTypesOK
<1>9. PICK g : /\ UpdateLoop(g, entries, WritesRefused, AfterWrite)
               /\ Update(entries) = g[Len(entries)]
  BY <1>6, <1>7, <1>8, WriteUpdate
<1>10. /\ chunks' = g[Len(entries)].chunks /\ unerased' = unerased
       /\ WaitForCore(i, entries, g[Len(entries)].mask)
  BY <1>2, <1>9 DEF writeInternal
<1> QED BY <1>1, <1>3, <1>4, <1>6, <1>9, <1>10, UpdateWaits

(***************************************************************************)
(* A reset of a list.                                                      *)
(***************************************************************************)
LEMMA EraseWaits ==
  ASSUME OCInv, DescInv, version = "2.0", NEW i \in DOMAIN cmds,
         cmds[i].pc = "fetch", cmds[i].op = "vectorReset", eraseInternal(i, cmds[i].lbas)
  PROVE  DescInv'
<1>1. PICK K : K = ChunksOf(cmds[i].lbas)
  OBVIOUS
<1>2. PICK entries : entries = convertUnit(cmds[i].lbas, TRUE)
  OBVIOUS
<1>3. PICK list \in Seq(Blocks) : list = cmds[i].lbas
  BY DEF OCInv, TypesOK, IsCommand
<1>4. entries \in Seq(K \X PageIds) /\ Len(entries) <= Len(list)
  BY <1>1, <1>2, <1>3, ConvertedWithin
<1>5. Len(entries) <= MaskBits
  <2>1. Len(list) <= MaskBits /\ Len(list) \in Nat
    <3>1. ChunkCommand(cmds[i])
      BY DEF DescInv, ChunkTypesOK
    <3>2. Len(cmds[i].lbas) <= MaskBits
      BY <3>1, Zenon DEF ChunkCommand
    <3> QED BY <1>3, <3>2
  <2>2. Len(entries) \in Nat /\ MaskBits \in Nat
    BY <1>4, OpenChannelAssumption
  <2> QED BY <1>4, <2>1, <2>2
<1>6. K \subseteq ChunkIds
  BY <1>1, FetchedDescribed
<1>7. PICK mask, freed : mask = EraseMask(entries) /\ freed = Freed(entries)
  OBVIOUS
<1>8. PICK e : e = Accepted(entries, mask)
  OBVIOUS
<1>9. /\ chunks' = [c \in ChunkIds |-> IF c \in freed THEN Erased ELSE chunks[c]]
      /\ unerased' = (unerased \cup freed) \ NamedBy(e)
      /\ WaitForCore(i, entries, mask)
  BY <1>2, <1>7, <1>8 DEF eraseInternal
<1>10. PICK x : x = WithMask(cmds[i], e, mask)
  OBVIOUS
<1>11. IsCommand(cmds[i])
  BY DEF OCInv, TypesOK
<1>12. IsCommand(x) /\ x.op = cmds[i].op /\ x.lbas = cmds[i].lbas /\ x.pc = "core"
       /\ x.entries = e
  BY <1>10, <1>11, MaskReplaced
<1>13. cmds' = [cmds EXCEPT ![i] = x] /\ version' = version /\ flash' = flash
  BY <1>8, <1>9, <1>10 DEF WaitForCore, WithMask
<1>14. /\ e \in Seq(K \X PageIds)
       /\ \A l \in DOMAIN e : \E j \in 1 .. Len(entries) :
            ~Removed(j, mask) /\ e[l] = entries[j]
  BY <1>4, <1>8, AcceptedEntries
<1>15. /\ \A l \in DOMAIN e : \E j \in DOMAIN entries : j \notin mask /\ e[l] = entries[j]
       /\ DOMAIN entries = 1 .. Len(entries)
  <2>1. DOMAIN entries = 1 .. Len(entries) /\ Len(entries) \in Nat /\ MaskBits \in Nat
    BY <1>4, OpenChannelAssumption
  <2>2. \A j \in 1 .. Len(entries) : j <= MaskBits
    BY <1>5, <2>1
  <2> QED BY <1>14, <2>1, <2>2 DEF Removed
<1>16. NamedBy(e) \subseteq freed
  <2> SUFFICES ASSUME NEW l \in DOMAIN e
               PROVE  e[l][1] \in freed
    BY DEF NamedBy
  <2>1. PICK j \in DOMAIN entries : j \notin mask /\ e[l] = entries[j]
    BY <1>15
  <2>2. j \notin RefusedErases(entries)
    <3>1. j <= j
      BY <1>15
    <3> QED BY <1>7, <2>1, <3>1 DEF EraseMask
  <2>3. ~EraseRefused(chunks[entries[j][1]])
    BY <2>2 DEF RefusedErases
  <2> QED BY <1>7, <2>1, <2>3 DEF Freed, NamedBy
<1>17. freed \subseteq K
  BY <1>4, <1>7 DEF Freed, NamedBy
<1>18. chunks' \in [ChunkIds -> Descriptor]
  <2>1. chunks \in [ChunkIds -> Descriptor]
    BY DEF DescInv, ChunkTypesOK
  <2> QED BY <1>9, <2>1, OneChunkErased
<1>19. ASSUME NEW k \in ChunkIds \ K
       PROVE  chunks'[k] = chunks[k] /\ (k \in unerased' <=> k \in unerased)
  BY <1>9, <1>16, <1>17
<1>20. ASSUME NEW k \in K \ unerased'
       PROVE  Describes(chunks'[k], Programmed(x.op, flash[k], PagesOf(k, e)))
  <2>1. /\ k \in ChunkIds /\ flash[k] \in Seq(PageIds)
        /\ k \notin unerased => Describes(chunks[k], flash[k])
    BY <1>1, FetchedDescribed
  <2>2. PICK pages : pages = PagesOf(k, e)
    OBVIOUS
  <2>3. pages = <<>> <=> k \notin NamedBy(e)
    BY <1>14, <2>2, PagesOfNamed
  <2>4. x.op = "vectorReset"
    BY <1>12
  <2>5. CASE k \in NamedBy(e)
    <3>1. chunks'[k] = Erased
      BY <1>9, <1>16, <2>1, <2>5
    <3>2. Programmed(x.op, flash[k], pages) = <<>>
      BY <2>3, <2>4, <2>5 DEF Programmed
    <3> QED BY <2>2, <3>1, <3>2, OneChunkErased
  <2>6. CASE k \notin NamedBy(e)
    <3>1. k \notin freed /\ k \notin unerased
      BY <1>9, <2>6
    <3>2. chunks'[k] = chunks[k]
      BY <1>9, <2>1, <3>1
    <3>3. Programmed(x.op, flash[k], pages) = flash[k]
      BY <2>3, <2>4, <2>6 DEF Programmed
    <3> QED BY <2>1, <2>2, <3>1, <3>2, <3>3
  <2> QED BY <2>5, <2>6
<1> QED BY <1>1, <1>12, <1>13, <1>14, <1>18, <1>19, <1>20, BeginsToWait

(***************************************************************************)
(* The range a command by range works on is a part of its blocks.          *)
(***************************************************************************)
LEMMA RangeWithin ==
  ASSUME NEW r \in Ranges, NEW lbas, lbas = Run(r[1], r[1] + r[2] - 1),
         NEW c, c.lbas = lbas
  PROVE  /\ RangeList(c) \in Seq(Blocks)
         /\ ChunksOf(RangeList(c)) \subseteq ChunksOf(lbas)
<1>1. PICK a, n : a = r[1] /\ n = r[2]
  OBVIOUS
<1>2. a \in Nat /\ n \in Nat \ {0}
  BY <1>1, HostAssumption
<1>3. Max({0, n}) = n /\ (a + n - 1) - a + 1 = n
  BY <1>2 DEF Max
<1>4. lbas = [i \in 1 .. n |-> a + i - 1]
  BY <1>1, <1>3 DEF Run
<1>5. lbas \in Seq(Blocks)
  BY RunOfBlocks
<1>6. Len(lbas) = n /\ DOMAIN lbas = 1 .. n /\ lbas[1] = a
  BY <1>2, <1>4
<1>7. PICK m : m = Max({0, n - a})
  OBVIOUS
<1>8. m \in 0 .. n
  BY <1>2, <1>7 DEF Max
<1>9. (n - 1) - a + 1 = n - a
  BY <1>2
<1>10. PICK l : l = RangeList(c)
  OBVIOUS
<1>11. l = [i \in 1 .. m |-> a + i - 1]
  BY <1>6, <1>7, <1>9, <1>10 DEF RangeList, Run
<1>12. \A i \in 1 .. m : i \in 1 .. n /\ l[i] = lbas[i]
  BY <1>2, <1>4, <1>8, <1>11
<1>13. l \in Seq(Blocks) /\ Len(l) = m /\ DOMAIN l = 1 .. m
  <2>1. \A i \in 1 .. n : lbas[i] \in Blocks
    BY <1>5, <1>6
  <2>2. l \in [1 .. m -> Blocks]
    BY <1>11, <1>12, <2>1
  <2> QED BY <1>2, <1>8, <2>2
<1>14. ChunksOf(l) \subseteq ChunksOf(lbas)
  BY <1>6, <1>12, <1>13 DEF ChunksOf
<1> QED BY <1>10, <1>13, <1>14

(***************************************************************************)
(* A new command waits for its addresses first.                            *)
(***************************************************************************)
LEMMA SubmitDescribed ==
  ASSUME OCInv, DescInv, NEW op, NEW lbas, Submit(op, lbas),
         version = "2.0" =>
           \A c : c.op = op /\ c.lbas = lbas => ChunkCommand(c)
  PROVE  DescInv'
<1>1. PICK x : x = [op |-> op, lbas |-> lbas, pc |-> "fetch", entries |-> <<>>,
                    mask |-> {}, data |-> <<>>]
  OBVIOUS
<1>2. x.op = op /\ x.lbas = lbas /\ x.pc = "fetch"
  BY <1>1
<1>3. cmds' = Append(cmds, x) /\ UNCHANGED <<version, chunks, flash, unerased>>
  BY <1>1 DEF Submit
<1> DEFINE n == Len(cmds) + 1
<1>4. /\ DOMAIN cmds' = DOMAIN cmds \cup {n} /\ n \notin DOMAIN cmds
      /\ \A i \in DOMAIN cmds : cmds'[i] = cmds[i]
      /\ cmds'[n] = x
  BY <1>3, AppendCommand DEF OCInv, TypesOK
<1> HIDE DEF n
<1>5. Waiting' = Waiting /\ \A j \in Waiting : cmds'[j] = cmds[j]
  BY <1>2, <1>4 DEF Waiting
<1>6. version = "2.0" => \A j \in DOMAIN cmds' : ChunkCommand(cmds'[j])
  BY <1>2, <1>4 DEF DescInv, ChunkTypesOK
<1> QED BY <1>3, <1>5, <1>6, NoneWaits

(***************************************************************************)
(* The commands of version 2.0 when they were fetched, and those of 1.2,   *)
(* which do not occur with it.                                             *)
(***************************************************************************)
LEMMA ChunkCommandsDescribe ==
  ASSUME OCInv, DescInv, version = "2.0", NEW i \in DOMAIN cmds,
         \/ read(i) \/ write(i)
         \/ vectorChunkRead(i) \/ vectorChunkWrite(i) \/ vectorChunkReset(i)
  PROVE  DescInv'
<1>1. /\ cmds[i].lbas \in Seq(Blocks) /\ ChunkCommand(cmds[i])
      /\ Len(cmds[i].lbas) \in Nat
  BY DEF OCInv, TypesOK, IsCommand, DescInv, ChunkTypesOK
<1>2. CASE read(i)
  BY <1>1, <1>2, ReadWaits DEF read, Fetched, ChunkCommand
<1>3. CASE write(i)
  BY <1>1, <1>3, WriteWaits DEF write, Fetched, ChunkCommand
<1>4. CASE vectorChunkRead(i)
  BY <1>1, <1>4, ReadWaits DEF vectorChunkRead, Fetched
<1>5. CASE vectorChunkWrite(i)
  <2>1. /\ cmds[i].pc = "fetch" /\ cmds[i].op = "vectorWrite"
        /\ writeInternal(i, cmds[i].lbas)
    BY <1>5 DEF vectorChunkWrite, Fetched
  <2>2. PICK entries : entries = convertUnit(cmds[i].lbas, FALSE)
    OBVIOUS
  <2>3. Len(entries) \in Nat /\ Len(entries) <= Len(cmds[i].lbas)
    <3>1. PICK list \in Seq(Blocks) : list = cmds[i].lbas
      BY <1>1
    <3>2. entries \in Seq(ChunksOf(list) \X PageIds) /\ Len(entries) <= Len(list)
      BY <2>2, <3>1, ConvertedList
    <3> QED BY <3>1, <3>2
  <2>4. Len(entries) <= MaskBits
    BY <1>1, <2>1, <2>3, OpenChannelAssumption DEF ChunkCommand
  <2> QED BY <1>1, <2>1, <2>2, <2>4, WriteWaits
<1>6. CASE vectorChunkReset(i)
  BY <1>6, EraseWaits DEF vectorChunkReset, Fetched
<1> QED BY <1>2, <1>3, <1>4, <1>5, <1>6

(***************************************************************************)
(* The commands of version 1.2 do not occur with 2.0.                      *)
(***************************************************************************)
LEMMA PhysicalDescribed ==
  ASSUME DescInv, NEW i \in DOMAIN cmds,
         physicalBlockErase(i) \/ physicalPageWrite(i) \/ physicalPageRead(i)
  PROVE  DescInv'
<1>1. version # "2.0"
  BY DEF DescInv, ChunkTypesOK, ChunkCommand, Fetched,
         physicalBlockErase, physicalPageWrite, physicalPageRead
<1>2. version' = version
  BY DEF physicalBlockErase, physicalPageWrite, physicalPageRead
<1> QED BY <1>1, <1>2 DEF DescInv

(***************************************************************************)
(* A core takes up a command: what its descriptors tell is true then.      *)
(***************************************************************************)
LEMMA ExecuteDescribes ==
  ASSUME OCInv, DescInv, NEW i \in DOMAIN cmds, Execute(i)
  PROVE  DescInv'
<1>1. CASE version # "2.0"
  BY <1>1 DEF Execute, DescInv
<1>2. CASE version = "2.0"
  <2>1. PICK c : c = cmds[i]
    OBVIOUS
  <2>2. PICK x : x = WithEntries(c, c.entries, "flash")
    OBVIOUS
  <2>3. IsCommand(x) /\ x.op = c.op /\ x.lbas = c.lbas /\ x.pc = "flash" /\ c.pc = "core"
    BY <2>1, <2>2, EntriesReplaced DEF OCInv, TypesOK, Execute
  <2>4. /\ cmds' = [cmds EXCEPT ![i] = x] /\ chunks' = chunks /\ version' = version
        /\ unerased' = unerased
        /\ flash' = [k \in ChunkIds |-> Programmed(c.op, flash[k], PagesOf(k, c.entries))]
    BY <2>1, <2>2 DEF Execute, ToFlash, WithEntries
  <2>5. Goes(i, x)
    BY <2>1, <2>3, <2>4 DEF Goes, Outstanding
  <2>6. /\ DOMAIN cmds' = DOMAIN cmds /\ cmds'[i] = x
        /\ \A j \in DOMAIN cmds : j # i => cmds'[j] = cmds[j]
    BY <2>3, <2>5, GoesFacts DEF OCInv
  <2>7. i \in Waiting /\ Waiting' = Waiting \ {i}
    BY <2>1, <2>3, <2>6 DEF Waiting
  <2>8. PICK K : K = ChunksOf(c.lbas)
    OBVIOUS
  <2>9. c.entries \in Seq(K \X PageIds)
    BY <1>2, <2>1, <2>7, <2>8 DEF DescInv, WaitingDescribed
  <2>10. ASSUME NEW k \in ChunkIds \ K
         PROVE  flash'[k] = flash[k] /\ flash[k] \in Seq(PageIds)
    <3>1. PagesOf(k, c.entries) = <<>>
      BY <2>9, PagesOfOthers
    <3>2. flash[k] \in Seq(PageIds)
      BY <1>2 DEF DescInv, ChunkTypesOK
    <3> QED BY <2>4, <3>1, <3>2, NothingProgrammed
  <2>11. ASSUME NEW k \in ChunkIds, k \in K \ unerased
         PROVE  Describes(chunks[k], flash'[k])
    BY <1>2, <2>1, <2>4, <2>7, <2>8, <2>11 DEF DescInv, WaitingDescribed
  <2>12. ChunkTypesOK'
    <3>1. ASSUME NEW k \in ChunkIds
          PROVE  flash'[k] \in Seq(PageIds)
      <4>1. flash[k] \in Seq(PageIds) /\ PagesOf(k, c.entries) \in Seq(PageIds)
        BY <1>2, <2>9, PagesArePages DEF DescInv, ChunkTypesOK
      <4> QED BY <2>4, <4>1, ProgrammedPages
    <3>2. flash' \in [ChunkIds -> Seq(PageIds)]
      BY <2>4, <3>1
    <3>3. ChunkCommand(x)
      BY <1>2, <2>1, <2>3, SameChunkCommand DEF DescInv, ChunkTypesOK
    <3> QED BY <1>2, <2>4, <2>6, <3>2, <3>3 DEF DescInv, ChunkTypesOK
  <2>13. WaitingDescribed'
    <3> SUFFICES ASSUME NEW j \in Waiting \ {i}
                 PROVE  /\ cmds[j].entries \in Seq(ChunksOf(cmds[j].lbas) \X PageIds)
                        /\ \A k \in ChunksOf(cmds[j].lbas) \ unerased :
                             Describes(chunks[k],
                               Programmed(cmds[j].op, flash'[k], PagesOf(k, cmds[j].entries)))
      BY <2>4, <2>6, <2>7 DEF WaitingDescribed, Waiting
    <3>1. \A k \in ChunksOf(cmds[j].lbas) : flash'[k] = flash[k]
      <4> TAKE k \in ChunksOf(cmds[j].lbas)
      <4>1. i \in Outstanding /\ j \in Outstanding /\ i # j /\ j \in DOMAIN cmds
        BY <2>7 DEF Waiting, Outstanding
      <4>2. k \notin K
        BY <2>1, <2>8, <4>1 DEF OCInv, Apart
      <4>3. k \in ChunkIds
        BY <4>1, ParsedBlock DEF OCInv, TypesOK, IsCommand, ChunksOf
      <4> QED BY <2>10, <4>2, <4>3
    <3> QED BY <1>2, <3>1 DEF DescInv, WaitingDescribed
  <2>14. OthersDescribed'
    <3> SUFFICES ASSUME NEW k \in ChunkIds \ unerased,
                        \A j \in Waiting \ {i} : k \notin ChunksOf(cmds[j].lbas)
                 PROVE  Describes(chunks[k], flash'[k])
      BY <2>4, <2>6, <2>7 DEF OthersDescribed, Waiting
    <3>1. CASE k \in K
      BY <2>11, <3>1
    <3>2. CASE k \notin K
      <4>1. \A j \in Waiting : k \notin ChunksOf(cmds[j].lbas)
        BY <2>1, <2>8, <3>2
      <4> QED BY <1>2, <2>10, <3>2, <4>1 DEF DescInv, OthersDescribed
    <3> QED BY <3>1, <3>2
  <2> QED BY <2>12, <2>13, <2>14 DEF DescInv
<1> QED BY <1>1, <1>2

(***************************************************************************)
(* What comes after the flash concerns no command that waits.              *)
(***************************************************************************)
LEMMA DataDoneDescribed ==
  ASSUME OCInv, DescInv, NEW i \in DOMAIN cmds, DataDone(i)
  PROVE  DescInv'
<1>1. PICK x : x = WithEntries(cmds[i], cmds[i].entries, "answered")
  OBVIOUS
<1>2. /\ IsCommand(cmds[i]) /\ IsSequence(cmds) /\ cmds[i].pc = "data"
      /\ cmds' = [cmds EXCEPT ![i] = x]
      /\ version' = version /\ chunks' = chunks /\ flash' = flash
      /\ unerased' = unerased
  BY <1>1, AnsweredCommand DEF DataDone, OCInv, TypesOK
<1>3. x.op = cmds[i].op /\ x.lbas = cmds[i].lbas /\ x.pc = "answered"
  BY <1>1, <1>2, EntriesReplaced
<1>4. /\ DOMAIN cmds' = DOMAIN cmds /\ cmds'[i] = x
      /\ \A j \in DOMAIN cmds : j # i => cmds'[j] = cmds[j]
  BY <1>2, ReplaceCommand
<1>5. Waiting' = Waiting /\ \A j \in Waiting : cmds'[j] = cmds[j]
  BY <1>2, <1>3, <1>4 DEF Waiting
<1>6. version = "2.0" => \A j \in DOMAIN cmds' : ChunkCommand(cmds'[j])
  BY <1>3, <1>4, SameChunkCommand DEF DescInv, ChunkTypesOK
<1> QED BY <1>2, <1>5, <1>6, NoneWaits

(***************************************************************************)
(* The completion event touches commands in the flash.                     *)
(***************************************************************************)
LEMMA CompletionDescribed ==
  ASSUME OCInv, DescInv, completion
  PROVE  DescInv'
<1>1. version' = version /\ chunks' = chunks /\ flash' = flash /\ unerased' = unerased
  BY DEF completion
<1>2. \A i \in Ended : cmds[i].pc = "flash"
  BY DEF Ended, OCInv, QueueOK
<1>3. ASSUME NEW i \in DOMAIN cmds
      PROVE  /\ cmds'[i].op = cmds[i].op /\ cmds'[i].lbas = cmds[i].lbas
             /\ i \in Ended => cmds'[i].pc # "core"
             /\ i \notin Ended => cmds'[i] = cmds[i]
  BY CompletionFacts, CarriedFacts
<1>4. DOMAIN cmds' = DOMAIN cmds
  BY CompletionFacts
<1>5. Waiting' = Waiting /\ \A j \in Waiting : cmds'[j] = cmds[j]
  BY <1>2, <1>3, <1>4 DEF Waiting
<1>6. version = "2.0" => \A j \in DOMAIN cmds' : ChunkCommand(cmds'[j])
  BY <1>3, <1>4, SameChunkCommand DEF DescInv, ChunkTypesOK
<1> QED BY <1>1, <1>5, <1>6, NoneWaits

(***************************************************************************)
(* The lists, and the pages of what a range is taken for, are no more than *)
(* the mask has bits.  A list has at most 64 blocks, as their number is    *)
(* taken from six bits of the command; a range may have more pages.        *)
(***************************************************************************)
WithinMask ==
  /\ \A lbas \in VectorLists : Len(lbas) <= MaskBits
  /\ \A r \in Ranges :
       LET c == [lbas |-> Run(r[1], r[1] + r[2] - 1)]
       IN  Len(convertUnit(RangeList(c), FALSE)) <= MaskBits

(***************************************************************************)
(* Every step keeps the descriptors true.                                  *)
(***************************************************************************)
LEMMA NextDescInv ==
  ASSUME WithinMask, OCInv, DescInv, [Next]_vars
  PROVE  DescInv'
<1>1. ASSUME NEW op \in Operations, NEW lbas \in VectorLists, Submit(op, lbas)
      PROVE  DescInv'
  <2>1. version = "2.0" =>
          \A c : c.op = op /\ c.lbas = lbas => ChunkCommand(c)
    BY DEF Operations, WithinMask, ChunkCommand
  <2> QED BY <1>1, <2>1, SubmitDescribed
<1>2. ASSUME NEW op \in {"read", "write"}, NEW r \in Ranges,
             Submit(op, Run(r[1], r[1] + r[2] - 1))
      PROVE  DescInv'
  <2>1. PICK lbas : lbas = Run(r[1], r[1] + r[2] - 1)
    OBVIOUS
  <2>2. ASSUME NEW c, c.op = op, c.lbas = lbas
        PROVE  ChunkCommand(c)
    <3>1. PICK x : x = [lbas |-> lbas]
      OBVIOUS
    <3>2. Len(convertUnit(RangeList(x), FALSE)) <= MaskBits
      BY <2>1, <3>1 DEF WithinMask
    <3>3. x.lbas = c.lbas
      BY <2>2, <3>1
    <3>4. RangeList(x) = RangeList(c)
      BY <3>3 DEF RangeList
    <3> QED BY <2>1, <2>2, <3>2, <3>4, RangeWithin DEF ChunkCommand
  <2> QED BY <1>2, <2>1, <2>2, SubmitDescribed
<1>3. ASSUME NEW i \in DOMAIN cmds,
             \/ read(i) \/ write(i)
             \/ vectorChunkRead(i) \/ vectorChunkWrite(i) \/ vectorChunkReset(i)
      PROVE  DescInv'
  <2>1. CASE version = "2.0"
    BY <1>3, <2>1, ChunkCommandsDescribe
  <2>2. CASE version # "2.0"
    BY <1>3, <2>2 DEF DescInv, read, write, vectorChunkRead, vectorChunkWrite,
                      vectorChunkReset, readInternal, writeInternal, eraseInternal,
                      WaitForCore
  <2> QED BY <2>1, <2>2
<1>4. CASE Advance
  BY <1>4, NoneWaits DEF Advance, Waiting, DescInv, ChunkTypesOK
<1>5. CASE UNCHANGED vars
  BY <1>5, NoneWaits DEF vars, Waiting, DescInv, ChunkTypesOK
<1> QED BY <1>1, <1>2, <1>3, <1>4, <1>5, PhysicalDescribed, ExecuteDescribes,
           DataDoneDescribed, CompletionDescribed DEF Next

(***************************************************************************)
(* The descriptor of a chunk no command works on tells what was done to    *)
(* the flash: its pages were programmed in ascending order and once each,  *)
(* a free chunk was erased, a closed one has its last page, and the write  *)
(* pointer is behind the last page programmed; although the descriptors    *)
(* are changed when a command is fetched and the flash only when a core    *)
(* takes it up, and although a write that is refused in the middle of its  *)
(* list has the rest of it dropped.  It is not said of a chunk that a      *)
(* reset set FREE behind a refused entry, and so did not erase, before a   *)
(* reset erases it.                                                        *)
(***************************************************************************)
THEOREM DescriptorsAreTrue ==
  ASSUME WithinMask
  PROVE  Spec => []DescriptorsTrue
<1>1. OCInv /\ DescInv => DescriptorsTrue
  <2> SUFFICES ASSUME OCInv, DescInv, version = "2.0",
                      NEW k \in ChunkIds \ (BusyChunks \cup unerased)
               PROVE  Describes(chunks[k], flash[k])
    BY DEF DescriptorsTrue, Describes
  <2>1. \A i \in Waiting : k \notin ChunksOf(cmds[i].lbas)
    BY DEF Waiting, BusyChunks, Outstanding
  <2> QED BY <2>1 DEF DescInv, OthersDescribed
<1>2. Init => OCInv /\ DescInv
  BY InitOCInv, InitDescInv
<1>3. OCInv /\ DescInv /\ [Next]_vars => (OCInv /\ DescInv)'
  BY NextOCInv, NextDescInv
<1> QED BY <1>1, <1>2, <1>3, PTL DEF Spec

=============================================================================
