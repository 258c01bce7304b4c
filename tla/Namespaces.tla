----------------------------- MODULE Namespaces -----------------------------
(***************************************************************************)
(* The namespaces of an NVMe subsystem (hil/nvme/subsystem.cc and          *)
(* hil/nvme/namespace.cc): creating, attaching, formatting and deleting    *)
(* them, and the commands on their blocks, each of which passes through    *)
(* firmware cores, DMA and the HIL.  These three answer after any time, so *)
(* what was true when a command arrived may be false when it goes on.      *)
(*                                                                         *)
(* A namespace object that is deleted is gone from lNamespaces; using it   *)
(* afterwards is undefined behaviour and shown as the fault "freed", or    *)
(* "freed log" when the SMART log of a namespace uses it, and using the    *)
(* deleted context of a trim as "freed context".                           *)
(***************************************************************************)
EXTENDS Integers, Sequences, FiniteSets, SequencesExt, FiniteSetsExt

CONSTANTS
  TotalLogicalPages,  \* of the HIL
  LogicalPageSize,
  LbaSizes,           \* lbaSize of each LBA format
  NlbRange,           \* 2^16: the width of nlb in namespace.cc
  WordSize,           \* 2^64: the width of allocatedLogicalPages
  Hosts,              \* what hosts may do, see Init
  MaxCommands         \* bound: host.max, the commands of a behaviour

ASSUME NamespacesAssumption ==
  /\ \A h \in Hosts : h.max <= MaxCommands
  /\ TotalLogicalPages \in Nat \ {0} /\ LogicalPageSize \in Nat \ {0}
  /\ \A i \in DOMAIN LbaSizes : LbaSizes[i] \in 1 .. LogicalPageSize

VARIABLES
  lNamespaces,             \* the namespace objects, sorted by nsid
  allocatedLogicalPages,
  cmds,                    \* every command the host has sent
  fault,                   \* "none", or what went wrong
  host

vars == <<lNamespaces, allocatedLogicalPages, cmds, fault, host>>

NSID_LOWEST == 1
NSID_ALL == 99
Zero == 0                  \* the content of a block that was never written

-----------------------------------------------------------------------------
(* Space.                                                                  *)

\* [slba, nlblk) of namespace ns in logical pages of the device.
convertUnit(ns, slba, nlblk) ==
  LET lbaratio == LogicalPageSize \div ns.lbaSize
      off == slba % lbaratio
  IN  [slpn |-> ns.range.slpn + slba \div lbaratio,
       nlp |-> (nlblk + off + lbaratio - 1) \div lbaratio]

\* The gaps between the allocated ranges, in order: the whole device, of which
\* every range splits the last gap.
Unallocated(ranges) ==
  LET sorted == SortSeq(ranges, LAMBDA a, b : a.slpn < b.slpn)
      Gap(from, to) == [slpn |-> from, nlp |-> to - from]
      end[i \in 0 .. Len(sorted)] ==
        IF i = 0 THEN 0 ELSE sorted[i].slpn + sorted[i].nlp
  IN  [i \in 1 .. Len(sorted) + 1 |->
         Gap(end[i - 1], IF i > Len(sorted) THEN TotalLogicalPages
                         ELSE sorted[i].slpn)]

\* The assertion in the loop that splits the last gap.
Overlapping(gaps) == \E i \in DOMAIN gaps : gaps[i].nlp < 0

RequestedPages(r) == (r.size \div LogicalPageSize) * LbaSizes[r.format]

\* What createNamespace makes of request r: the first gap that is large enough.
FirstFit(r) ==
  LET gaps == Unallocated([i \in DOMAIN lNamespaces |-> lNamespaces[i].range])
      fits == {i \in DOMAIN gaps : gaps[i].nlp >= RequestedPages(r)}
  IN  IF fits = {} THEN [slpn |-> 0, nlp |-> 0]
      ELSE [slpn |-> gaps[Min(fits)].slpn, nlp |-> RequestedPages(r)]

HasRoom(r) ==
  RequestedPages(r) <= (TotalLogicalPages - allocatedLogicalPages) % WordSize

NewNamespace(obj, nsid, r) ==
  [obj |-> obj, nsid |-> nsid, size |-> r.size, lbaSize |-> LbaSizes[r.format],
   range |-> FirstFit(r), attached |-> FALSE,
   disk |-> host.disk, content |-> <<>>, newest |-> <<>>]

SortedByNsid(s) == SortSeq(s, LAMBDA a, b : a.nsid < b.nsid)

\* A mistaken form of ReturnedPages: blocks are taken for pages.
ReturnedBlocks(ns) == ns.size

\* What destroyNamespace gives back: rounded down as RequestedPages is, but the
\* bytes and not the blocks are.
ReturnedPages(ns) == (ns.size * ns.lbaSize) \div LogicalPageSize

-----------------------------------------------------------------------------
(* Lookup.                                                                 *)

Live(obj) == \E i \in DOMAIN lNamespaces : lNamespaces[i].obj = obj
Index(obj) == CHOOSE i \in DOMAIN lNamespaces : lNamespaces[i].obj = obj
Namespace(obj) == lNamespaces[Index(obj)]

\* The namespaces with this id: the loops take the first of them.
WithId(nsid) == {i \in DOMAIN lNamespaces : lNamespaces[i].nsid = nsid}
First(nsid) == lNamespaces[Min(WithId(nsid))]

\* The id namespaceManagement picks: the first one not taken, in a sorted list.
FreeNsid ==
  CHOOSE n \in NSID_LOWEST .. NSID_LOWEST + Len(lNamespaces) :
    /\ n = NSID_LOWEST + Len(lNamespaces) \/ lNamespaces[n].nsid # n
    /\ \A m \in NSID_LOWEST .. n - 1 : lNamespaces[m].nsid = m

Content(f, b) == IF b \in DOMAIN f THEN f[b] ELSE Zero
BlocksOf(c) == c.slba .. c.slba + c.nlb - 1
Stored(f, c, v) ==
  [b \in DOMAIN f \union BlocksOf(c) |-> IF b \in BlocksOf(c) THEN v ELSE f[b]]

-----------------------------------------------------------------------------
(* Subsystem::init: the default namespaces share the device.               *)

DefaultSize(n) == ((TotalLogicalPages * LogicalPageSize) \div LbaSizes[1]) \div n
DefaultPages(n) == RequestedPages([size |-> DefaultSize(n), format |-> 1])

Init ==
  /\ host \in Hosts
  /\ LET n == host.defaults
         pages == DefaultPages(n)
     IN  /\ lNamespaces =
              [i \in 1 .. n |->
                 [obj |-> -i, nsid |-> i, size |-> DefaultSize(n),
                  lbaSize |-> LbaSizes[1],
                  range |-> [slpn |-> (i - 1) * pages, nlp |-> pages],
                  attached |-> TRUE,
                  disk |-> host.disk, content |-> <<>>, newest |-> <<>>]]
         /\ allocatedLogicalPages = IF n = 0 THEN 0 ELSE n * pages
  /\ cmds = <<>>
  /\ fault = "none"

-----------------------------------------------------------------------------
(* The host.  A serial host has one management command under way at a time *)
(* and deletes or formats only namespaces it does not use.                 *)

Management == {"create", "delete", "attach", "detach", "format"}
Outstanding(c) == cmds[c].answers = 0
Unused(nsid) ==
  \A c \in DOMAIN cmds : Outstanding(c) => cmds[c].nsid \notin {nsid, NSID_ALL}

Allowed(op, nsid) ==
  /\ fault = "none" /\ Len(cmds) < host.max
  /\ op \in host.ops
  /\ host.serial =>
       /\ op \in Management =>
            \A c \in DOMAIN cmds : Outstanding(c) => cmds[c].op \notin Management
       /\ op \in {"delete", "format", "detach"} => Unused(nsid)
       /\ \A c \in DOMAIN cmds :
            Outstanding(c) /\ cmds[c].op \in Management => cmds[c].nsid # nsid

Command(op, nsid) ==
  [op |-> op, nsid |-> nsid, slba |-> 0, nlb |-> 0, at |-> "new", obj |-> 0,
   parts |-> {}, answers |-> 0, ok |-> TRUE, pages |-> [slpn |-> 0, nlp |-> 0],
   buffer |-> FALSE, data |-> Zero, must |-> Zero, racing |-> FALSE]

\* The answer; what is no longer needed of the context is forgotten.
Answered(c, ok) ==
  [c EXCEPT !.answers = @ + 1, !.at = "done", !.ok = ok, !.slba = 0, !.nlb = 0,
            !.obj = 0, !.parts = {}, !.pages = [slpn |-> 0, nlp |-> 0]]

\* A write makes the result of the reads that are under way a matter of luck.
Send(c) ==
  cmds' = Append(IF c.op # "write" THEN cmds
                 ELSE [i \in DOMAIN cmds |->
                         [cmds[i] EXCEPT !.racing =
                            \/ @
                            \/ /\ cmds[i].op = "read" /\ Outstanding(i)
                               /\ cmds[i].nsid = c.nsid]], c)

Goes(c, r) == cmds' = [cmds EXCEPT ![c] = r]
UnchangedSpace == UNCHANGED <<lNamespaces, allocatedLogicalPages, host>>

Fault(f) == fault' = f /\ UNCHANGED <<cmds, lNamespaces, allocatedLogicalPages, host>>

\* Command c uses its namespace, which is gone.
SmartOfNamespace(c) == cmds[c].op = "smart" /\ cmds[c].nsid # NSID_ALL
Freed(c) == Fault(IF SmartOfNamespace(c) THEN "freed log" ELSE "freed")

\* Command c waits at this point of its way, and may go on.
Reached(c, at) == fault = "none" /\ cmds[c].at = at

-----------------------------------------------------------------------------
(* Subsystem::submitCommand.                                               *)

\* The namespace is looked up now and used when a core has time for it; "all"
\* is the first one at that time.
Routed(c) ==
  IF c.nsid = NSID_ALL
  THEN IF lNamespaces = <<>> THEN Answered(c, FALSE) ELSE [c EXCEPT !.at = "dispatch"]
  ELSE IF WithId(c.nsid) = {} THEN Answered(c, FALSE)
  ELSE [c EXCEPT !.at = "dispatch", !.obj = First(c.nsid).obj]

\* The blocks of an I/O are within the namespace, as Identify tells its size.
InBounds(nsid, slba, n) ==
  WithId(nsid) # {} => slba + n <= First(nsid).size

ExpectedByHost(nsid, slba) ==
  IF WithId(nsid) = {} THEN Zero ELSE Content(First(nsid).newest, slba)

SubmitIO(op, nsid, slba, n) ==
  /\ op \in {"read", "write", "compare", "trim"}
  /\ Allowed(op, nsid) /\ InBounds(nsid, slba, n)
  /\ LET c == [Command(op, nsid) EXCEPT
                !.slba = slba, !.nlb = IF op = "trim" THEN n ELSE n % NlbRange,
                !.must = IF op = "read" THEN ExpectedByHost(nsid, slba) ELSE Zero,
                !.racing = op = "read" /\ \E d \in DOMAIN cmds :
                             Outstanding(d) /\ cmds[d].op = "write" /\ cmds[d].nsid = nsid]
     IN  Send(Routed(c))
  /\ UnchangedSpace /\ UNCHANGED fault

SubmitFlush(nsid) ==
  /\ Allowed("flush", nsid)
  /\ Send(Routed(Command("flush", nsid)))
  /\ UnchangedSpace /\ UNCHANGED fault

\* The SMART log of one namespace is answered, and then left to the namespace.
GetLogPage(nsid) ==
  /\ Allowed("smart", nsid)
  /\ LET c == Command("smart", nsid)
     IN  Send(IF nsid = NSID_ALL THEN [c EXCEPT !.at = "dma"]
              ELSE Routed(Answered(c, TRUE)))
  /\ UnchangedSpace /\ UNCHANGED fault

-----------------------------------------------------------------------------
(* Management commands.                                                    *)

\* The id is chosen now, the namespace made when its data has been read.
SubmitCreate(r) ==
  /\ Allowed("create", FreeNsid)
  /\ Send([Command("create", FreeNsid) EXCEPT
             !.slba = r.size, !.nlb = r.format, !.at = "data"])
  /\ UnchangedSpace /\ UNCHANGED fault

createNamespace(c, r) ==
  IF ~HasRoom(r) \/ FirstFit(r).nlp = 0
  THEN Goes(c, Answered(cmds[c], FALSE)) /\ UnchangedSpace
  ELSE /\ Goes(c, Answered(cmds[c], TRUE))
       /\ allocatedLogicalPages' = (allocatedLogicalPages + RequestedPages(r)) % WordSize
       /\ lNamespaces' = SortedByNsid(Append(lNamespaces, NewNamespace(c, cmds[c].nsid, r)))
       /\ UNCHANGED host

CreateDone(c) ==
  LET r == [size |-> cmds[c].slba, format |-> cmds[c].nlb]
      gaps == Unallocated([i \in DOMAIN lNamespaces |-> lNamespaces[i].range])
  IN  /\ Reached(c, "data") /\ cmds[c].op = "create"
      /\ IF HasRoom(r) /\ Overlapping(gaps) THEN Fault("BUG")
         ELSE createNamespace(c, r) /\ UNCHANGED fault

destroyNamespace(nsid) ==
  /\ Allowed("delete", nsid)
  /\ IF WithId(nsid) = {}
     THEN /\ Send(Answered(Command("delete", nsid), FALSE))
          /\ UnchangedSpace
     ELSE /\ Send(Answered(Command("delete", nsid), TRUE))
          /\ allocatedLogicalPages' =
               (allocatedLogicalPages - ReturnedPages(First(nsid))) % WordSize
          /\ lNamespaces' = RemoveAt(lNamespaces, Min(WithId(nsid)))
          /\ UNCHANGED host
  /\ UNCHANGED fault

SubmitAttachment(op, nsid) ==
  /\ op \in {"attach", "detach"}
  /\ Allowed(op, nsid)
  /\ Send([Command(op, nsid) EXCEPT !.at = "data"])
  /\ UnchangedSpace /\ UNCHANGED fault

\* Every namespace with the id is attached or detached; one that is missing is
\* an error for "attach" only.
namespaceAttachment(c) ==
  LET op == cmds[c].op
      ids == WithId(cmds[c].nsid)
      wrong == {i \in ids : lNamespaces[i].attached = (op = "attach")}
  IN  /\ Reached(c, "data") /\ op \in {"attach", "detach"}
      /\ Goes(c, Answered(cmds[c], wrong = {} /\ (op = "attach" => ids # {})))
      /\ lNamespaces' = [i \in DOMAIN lNamespaces |->
           IF i \in ids THEN [lNamespaces[i] EXCEPT !.attached = (op = "attach")]
           ELSE lNamespaces[i]]
      /\ UNCHANGED <<allocatedLogicalPages, host, fault>>

\* The size becomes that of the whole device, the disk image is closed, and the
\* time until which commands are refused is now.
formatNVM(nsid, f) ==
  /\ Allowed("format", nsid)
  /\ IF WithId(nsid) = {}
     THEN Send(Answered(Command("format", nsid), FALSE)) /\ UNCHANGED lNamespaces
     ELSE /\ Send([Command("format", nsid) EXCEPT
                     !.at = "hil", !.parts = {"hil"}, !.obj = First(nsid).obj,
                     !.pages = First(nsid).range])
          /\ lNamespaces' = [lNamespaces EXCEPT ![Min(WithId(nsid))] =
               [@ EXCEPT !.lbaSize = LbaSizes[f],
                         !.size = (TotalLogicalPages * LogicalPageSize) \div LbaSizes[f],
                         !.disk = FALSE, !.content = <<>>, !.newest = <<>>]]
  /\ UNCHANGED <<allocatedLogicalPages, host, fault>>

-----------------------------------------------------------------------------
(* Namespace::submitCommand and the commands on blocks.                    *)

\* A mistaken form of Dispatch: a command on a detached namespace is dropped.
DispatchAttached(c) ==
  LET ns == Namespace(cmds[c].obj)
  IN  /\ Reached(c, "dispatch") /\ cmds[c].nsid # NSID_ALL /\ Live(cmds[c].obj)
      /\ Goes(c, [cmds[c] EXCEPT !.at = IF ns.attached THEN "list" ELSE "done"])
      /\ UnchangedSpace /\ UNCHANGED fault

Dispatch(c) ==
  LET all == cmds[c].nsid = NSID_ALL
      gone == IF all THEN lNamespaces = <<>> ELSE ~Live(cmds[c].obj)
      ns == IF all THEN lNamespaces[1] ELSE Namespace(cmds[c].obj)
      x == [cmds[c] EXCEPT !.obj = ns.obj]
  IN  /\ Reached(c, "dispatch")
      /\ IF gone THEN Freed(c)
         ELSE /\ Goes(c, IF x.op = "smart"
                         THEN IF x.nsid = ns.nsid THEN [x EXCEPT !.at = "dma"]
                              ELSE Answered(x, FALSE)
                         ELSE IF ~ns.attached THEN Answered(x, FALSE)
                         ELSE IF x.op \in {"read", "write", "compare"} /\ x.nlb = 0
                              THEN Answered(x, TRUE)
                         ELSE [x EXCEPT !.at = "list"])
              /\ UnchangedSpace /\ UNCHANGED fault

\* The list of the host's memory is known, and a core has time: the DMA and the
\* HIL's part of the command start.
Start(c) ==
  LET ns == Namespace(cmds[c].obj)
      x  == cmds[c]
  IN  /\ Reached(c, "list")
      /\ IF ~Live(x.obj) THEN Freed(c)
         ELSE /\ Goes(c, CASE x.op = "trim" -> [x EXCEPT !.at = "ranges"]
                           [] x.op = "flush" -> [x EXCEPT !.at = "hil", !.parts = {"hil"},
                                                          !.pages = ns.range]
                           [] OTHER -> [x EXCEPT
                                !.at = "hil", !.parts = {"hil", "dma"},
                                !.pages = convertUnit(ns, x.slba, x.nlb),
                                !.buffer = ns.disk,
                                !.data = IF x.op # "read" THEN Zero
                                         ELSE Content(ns.content, x.slba)])
              /\ UnchangedSpace /\ UNCHANGED fault

\* The ranges of a dataset management command have been read.
TrimRanges(c) ==
  /\ Reached(c, "ranges")
  /\ IF ~Live(cmds[c].obj) THEN Freed(c)
     ELSE /\ Goes(c, [cmds[c] EXCEPT
                        !.at = "hil", !.parts = 1 .. host.ranges,
                        !.pages = convertUnit(Namespace(cmds[c].obj), cmds[c].slba, cmds[c].nlb)])
          /\ UnchangedSpace /\ UNCHANGED fault

\* A mistaken form of Complete: only the first block of a write is stored.
CompleteFirstBlock(c) ==
  LET x == cmds[c]
      i == Index(x.obj)
  IN  /\ Live(x.obj)
      /\ Goes(c, Answered(x, TRUE))
      /\ lNamespaces' =
           IF x.op # "write" THEN lNamespaces
           ELSE [lNamespaces EXCEPT ![i].content = Stored(@, [x EXCEPT !.nlb = 1], c),
                                    ![i].newest = Stored(@, x, c)]
      /\ UNCHANGED <<allocatedLogicalPages, host, fault>>

\* The last part of command c has ended: it is answered, and the data of a
\* write goes to the disk image.
Complete(c) ==
  LET x == cmds[c]
      i == Index(x.obj)
  IN  IF x.op = "format" THEN Goes(c, Answered(x, TRUE)) /\ UnchangedSpace /\ UNCHANGED fault
      ELSE IF ~Live(x.obj) THEN Freed(c)
      ELSE IF x.op = "write" /\ x.buffer /\ ~lNamespaces[i].disk THEN Fault("no disk")
      ELSE /\ Goes(c, Answered(x, TRUE))
           /\ lNamespaces' =
                IF x.op # "write" THEN lNamespaces
                ELSE [lNamespaces EXCEPT
                        ![i].content = IF x.buffer THEN Stored(@, x, c) ELSE @,
                        ![i].newest = Stored(@, x, c)]
           /\ UNCHANGED <<allocatedLogicalPages, host, fault>>

\* A mistaken form of PartDone: the host is answered when the first part has ended.
AnswerFirstPart(c) ==
  /\ Reached(c, "hil") /\ cmds[c].op # "trim"
  /\ \E p \in cmds[c].parts :
       IF cmds[c].parts = {p} THEN Complete(c)
       ELSE /\ Goes(c, [cmds[c] EXCEPT !.parts = @ \ {p}, !.answers = 1])
            /\ UnchangedSpace /\ UNCHANGED fault

\* dmaDone, doFlush, doFormat: each part counts down.
PartDone(c) ==
  /\ Reached(c, "hil") /\ cmds[c].op # "trim"
  /\ \E p \in cmds[c].parts :
       IF cmds[c].parts = {p} THEN Complete(c)
       ELSE /\ Goes(c, [cmds[c] EXCEPT !.parts = @ \ {p}])
            /\ UnchangedSpace /\ UNCHANGED fault

\* eachTrimDone deletes its context whether or not there are more ranges.
EachTrimDone(c) ==
  /\ Reached(c, "hil") /\ cmds[c].op = "trim"
  /\ IF cmds[c].parts # 1 .. host.ranges THEN Fault("freed context")
     ELSE IF host.ranges = 1 THEN Complete(c)
     ELSE /\ Goes(c, [cmds[c] EXCEPT !.parts = 1 .. host.ranges - 1])
          /\ UnchangedSpace /\ UNCHANGED fault

\* The log is read from the namespace some time between the two; it may have
\* been read before the namespace was deleted.
LogPageDone(c) ==
  /\ Reached(c, "dma")
  /\ \/ /\ SmartOfNamespace(c) /\ ~Live(cmds[c].obj)
        /\ Freed(c)
     \/ /\ Goes(c, Answered(cmds[c], TRUE))
        /\ UnchangedSpace /\ UNCHANGED fault

-----------------------------------------------------------------------------
Nsids == NSID_LOWEST .. NSID_LOWEST + host.maxNs - 1

HostStep ==
  \/ \E op \in host.ops, n \in Nsids, slba \in host.lbas, b \in host.blocks :
       SubmitIO(op, n, slba, b)
  \/ \E n \in Nsids \union {NSID_ALL} : SubmitFlush(n)
  \/ \E n \in host.smart : GetLogPage(n)
  \/ \E r \in host.requests : SubmitCreate(r)
  \/ \E n \in Nsids : destroyNamespace(n)
  \/ \E n \in Nsids, op \in host.ops : SubmitAttachment(op, n)
  \/ \E n \in Nsids, f \in DOMAIN LbaSizes : formatNVM(n, f)

Firmware ==
  \E c \in DOMAIN cmds :
    \/ Dispatch(c) \/ Start(c) \/ TrimRanges(c) \/ PartDone(c) \/ EachTrimDone(c)
    \/ LogPageDone(c) \/ CreateDone(c) \/ namespaceAttachment(c)

Next == HostStep \/ Firmware

\* Weak fairness of Firmware, which is enabled when a command is under way:
\* cores, DMA and HIL go on as long as they have work.  The host may stop.
Busy == fault = "none" /\ \E c \in DOMAIN cmds : cmds[c].at # "done"
Fairness == []<>~Busy \/ []<><<Len(cmds') = Len(cmds)>>_vars

Spec == Init /\ [][Next]_vars /\ Fairness

-----------------------------------------------------------------------------
(* Properties.                                                             *)

Pages(r) == r.slpn .. r.slpn + r.nlp - 1
Formats == "format" \in host.ops

\* Blocks that take whole logical pages in every format.
Whole(size) == size % LogicalPageSize = 0

\* The pages of command x are pages of namespace ns, and hold all its blocks.
Inside(x, ns) ==
  /\ Pages(x.pages) \subseteq Pages(ns.range)
  /\ x.op \in {"read", "write", "compare", "trim"} =>
       /\ (x.pages.slpn - ns.range.slpn) * LogicalPageSize <= x.slba * ns.lbaSize
       /\ (x.pages.slpn - ns.range.slpn + x.pages.nlp) * LogicalPageSize
            >= (x.slba + x.nlb) * ns.lbaSize

\* Command c is at the HIL for a namespace that was not formatted.
AtWork(c) == cmds[c].at = "hil" /\ Live(cmds[c].obj) /\ ~Formats

\* What the HIL is asked to do for a command are pages of the command's own
\* namespace, and they hold all of its blocks (convertUnit), also when other
\* namespaces are created and deleted meanwhile.  This is said of namespaces of
\* a whole size: of the others the last blocks have no page (OwnPagesOnly).
IOInside ==
  \A c \in DOMAIN cmds :
    AtWork(c) /\ Whole(Namespace(cmds[c].obj).size)
      => Inside(cmds[c], Namespace(cmds[c].obj))

\* The counter that decides about new namespaces says what is taken.
CounterExact ==
  allocatedLogicalPages =
    FoldFunction(LAMBDA a, b : a + b, 0,
                 [i \in DOMAIN lNamespaces |-> lNamespaces[i].range.nlp])

\* The namespaces divide the device: no page belongs to two, none lies behind
\* the end, and ids are unique, whatever is created and deleted in between and
\* of whatever size (createNamespace and destroyNamespace), although the counter
\* then says too little is taken.  For sizes that are whole the counter is exact.
\* It is wrong after a format and after the deletion of a namespace of another
\* size (SpaceCounted), and ids clash when a host does not wait for one creation
\* before it asks for the next.  And so every I/O stays inside its namespace.
SpacePartition ==
  /\ fault # "BUG"
  /\ \A i, j \in DOMAIN lNamespaces :
       i # j => /\ Pages(lNamespaces[i].range) \intersect Pages(lNamespaces[j].range) = {}
                /\ host.serial => lNamespaces[i].nsid # lNamespaces[j].nsid
  /\ UNION {Pages(lNamespaces[i].range) : i \in DOMAIN lNamespaces}
       \subseteq 0 .. TotalLogicalPages - 1
  /\ ~Formats /\ (\A r \in host.requests : Whole(r.size)) => CounterExact
  /\ IOInside

\* The counter is exact for requests of every size.  createNamespace takes
\* size / logicalPageSize * lbaSize pages and destroyNamespace gives back
\* size * lbaSize / logicalPageSize, and the code does not keep it.
SpaceCounted == ~Formats => CounterExact

\* I/O within the size that Identify tells stays inside every namespace.  The
\* code does not keep it: the range is made of whole pages, the size is not.
OwnPagesOnly ==
  \A c \in DOMAIN cmds : AtWork(c) => Inside(cmds[c], Namespace(cmds[c].obj))

\* With a disk image, a read that no write races with returns what the last
\* write answered before it stored there (Namespace::read and write, whose DMA
\* and HIL parts end in any order).  After a format the image is gone.
ReadsNewest ==
  \A c \in DOMAIN cmds :
    /\ cmds[c].op = "read" /\ cmds[c].at = "done" /\ cmds[c].ok /\ cmds[c].buffer
    /\ ~cmds[c].racing /\ ~Formats
    => cmds[c].data = cmds[c].must

\* A host that deletes and formats only namespaces it has no unanswered command
\* for does not make the firmware use a namespace that is gone, whose pointer
\* the contexts of commands keep.  Two things are left out that such a host does
\* reach (SerialHostsAreSafe): the SMART log of a namespace, which is answered
\* before a core takes it up, and the context of a trim with several ranges.
NothingUsedAfterFree ==
  host.serial => fault \in {"none", "freed log", "freed context"}

\* The same without these exceptions, which the code does not keep.
SerialHostsAreSafe == host.serial => fault = "none"

\* Every command is answered, once, in the end, unless a fault stops the
\* simulation.  The SMART log of a namespace is answered twice.
AnsweredOnce ==
  /\ [](\A c \in DOMAIN cmds : cmds[c].answers <= 1 \/ SmartOfNamespace(c))
  /\ <>[](\A c \in DOMAIN cmds : cmds[c].answers > 0 \/ fault # "none")

\* What the comment on formatNVM says: while the format of a namespace is in
\* progress, its commands are refused.
FormatBlocksCommands ==
  \A d \in DOMAIN cmds : \A c \in d + 1 .. Len(cmds) :
    cmds[d].op = "format" /\ cmds[d].at = "hil" /\ cmds[c].obj = cmds[d].obj
      => cmds[c].at \notin {"list", "ranges", "hil"}

=============================================================================
