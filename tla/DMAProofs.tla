----------------------------- MODULE DMAProofs ------------------------------
(***************************************************************************)
(* Two promises of the DMA of the NVMe firmware.  The FIFO under it        *)
(* implements the DMA interface, but for what must happen in the end: in   *)
(* each direction, every request of at least one byte is answered once, in *)
(* the order of the requests, whatever the size of the queue, the lists of *)
(* the host and the number of commands, and although a callback makes      *)
(* further requests (RequestsAnsweredInOrder).  And the firmware goes on   *)
(* with a command when the bytes of its list have crossed the bus, no more *)
(* and no less of them (TransfersAreComplete); this part begins with       *)
(* Pieces, behind the first theorem.                                       *)
(***************************************************************************)
EXTENDS DMALists, SequenceLemmas, FiniteSetTheorems

PieceType == [req : Nat, addr : Int, size : Int, last : BOOLEAN, id : Nat]

QueueType ==
  [wait : Seq(PieceType), transfer : Seq(PieceType), usage : Int, counter : Nat,
   insertPending : BOOLEAN, transferPending : BOOLEAN, insertDone : BOOLEAN,
   beginTransfer : BOOLEAN, submitCompletion : BOOLEAN, dma : BOOLEAN]

RequestType == [cmd : Nat, what : {"list", "data"}, pos : Int, size : Int]

CommandType ==
  [chunks : Seq(ChunkType), lists : Seq(Seq(ChunkType)), todo : Int,
   transfer : TransferType, counter : Int,
   at : {"parsed", "fetching", "fetched", "moving", "done"}]

StateType ==
  [write : QueueType, read : QueueType,
   requests : Seq(RequestType), cmds : Seq(CommandType)]

(***************************************************************************)
(* The piece at work in the first half of its way fits into the queue: the *)
(* loop that fills the queue does not look at the piece a second time.     *)
(***************************************************************************)
HeadFits(q) == q.wait # <<>> /\ calcSize(q.wait[1].size) <= QueueSize

(***************************************************************************)
(* A second half that is about to begin has a piece to work on, behind the *)
(* one at work.                                                            *)
(***************************************************************************)
BeginHasPiece(q, working) ==
  q.beginTransfer => Len(q.transfer) >= IF working THEN 2 ELSE 1

(***************************************************************************)
(* The queue of writes: the first waiting piece is inserted, the first one *)
(* of the buffer transferred; what is finished is still in the buffer.     *)
(***************************************************************************)
WriteInv(q) ==
  /\ q \in QueueType
  /\ q.insertPending => HeadFits(q)
  /\ q.insertDone => q.insertPending
  /\ q.dma \/ q.submitCompletion => q.transferPending
  /\ ~(q.dma /\ q.submitCompletion)
  /\ q.transferPending => q.transfer # <<>>
  /\ BeginHasPiece(q, q.transferPending)

(***************************************************************************)
(* The queue of reads.  The pieces in the buffer are numbered; piece i has *)
(* been transferred, or inserted.  A piece is noted in readCompletion      *)
(* while it has one half of its way behind it, so a piece is finished when *)
(* both are, and never before.                                             *)
(***************************************************************************)
Transferred(q, i) == i < Len(q.transfer) \/ ~q.transferPending
InsertedRead(q, i) == i = 1 /\ q.insertPending /\ ~q.insertDone

Halfway(q) ==
  {q.transfer[i].id :
     i \in {j \in 1 .. Len(q.transfer) :
              ~(Transferred(q, j) <=> InsertedRead(q, j))}}

Numbered(q) ==
  \A i \in 1 .. Len(q.transfer) :
    q.transfer[i].id = q.counter - Len(q.transfer) + i - 1

ReadInv(q, done) ==
  /\ q \in QueueType
  /\ q.transferPending =>
       /\ HeadFits(q) /\ q.transfer # <<>>
       /\ q.wait[1] = q.transfer[Len(q.transfer)]
  /\ q.dma <=> q.transferPending
  /\ q.insertDone => q.insertPending
  /\ q.insertPending => q.transfer # <<>>
  /\ BeginHasPiece(q, q.insertPending)
  /\ Numbered(q)
  /\ done = Halfway(q)
  /\ q.submitCompletion => InsertedRead(q, 1) /\ Transferred(q, 1)

(***************************************************************************)
(* What waits for an answer in each direction.                             *)
(***************************************************************************)
Writes(s) == Unanswered(s.write, s.write.insertPending)
Reads(s)  == Unanswered(s.read, s.read.transferPending)

(***************************************************************************)
(* Requests and commands.  A command waits for at most one page of its     *)
(* list, which is there; data is asked for when the list is complete.  The *)
(* first k reads are being answered.                                       *)
(***************************************************************************)
Asks(s, i, c) ==
  s.requests[Reads(s)[i]].what = "list" /\ s.requests[Reads(s)[i]].cmd = c

FetchedOnce(s, k) ==
  \A i \in k + 1 .. Len(Reads(s)), c \in 1 .. Len(s.cmds) :
    Asks(s, i, c) =>
      /\ s.cmds[c].at = "fetching"
      /\ \A j \in k + 1 .. Len(Reads(s)) : Asks(s, j, c) => i = j

RequestsOK(s) ==
  /\ \A i \in 1 .. Len(s.requests) :
       /\ s.requests[i].cmd \in 1 .. Len(s.cmds)
       /\ s.requests[i].what = "data"
            => s.cmds[s.requests[i].cmd].at \in {"moving", "done"}
  /\ \A i \in 1 .. Len(Reads(s)) : Reads(s)[i] \in 1 .. Len(s.requests)
  /\ \A i \in 1 .. Len(Writes(s)) :
       /\ Writes(s)[i] \in 1 .. Len(s.requests)
       /\ s.requests[Writes(s)[i]].what = "data"

ListsThere(s) ==
  \A c \in 1 .. Len(s.cmds) :
    s.cmds[c].at \in {"fetching", "fetched"} => s.cmds[c].lists # <<>>

StateInv(s, k, done) ==
  /\ s \in StateType
  /\ WriteInv(s.write) /\ ReadInv(s.read, done)
  /\ RequestsOK(s) /\ ListsThere(s) /\ FetchedOnce(s, k)

DMAInv == StateInv(State, 0, readCompletion) /\ cores \in BOOLEAN

-----------------------------------------------------------------------------
(***************************************************************************)
(* The requests that the pieces answer, from piece to piece.               *)
(***************************************************************************)
AnswersUpTo(pieces, f) ==
  /\ f \in [0 .. Len(pieces) -> Seq(Nat)] /\ f[0] = <<>>
  /\ \A i \in 1 .. Len(pieces) :
       f[i] = IF pieces[i].last THEN Append(f[i - 1], pieces[i].req)
              ELSE f[i - 1]

LEMMA AnswersTrace ==
  ASSUME NEW s \in Seq(PieceType)
  PROVE  \E f : AnswersUpTo(s, f) /\ Answers(s) = f[Len(s)]
<1> DEFINE n == Len(s)
           S == Seq(Nat)
           step == [i \in 1 .. n |-> [a \in S |->
                      IF s[i].last THEN Append(a, s[i].req) ELSE a]]
           f == CHOOSE f : f = [i \in 0 .. n |->
                  IF i = 0 THEN <<>>
                  ELSE IF s[i].last THEN Append(f[i - 1], s[i].req)
                  ELSE f[i - 1]]
<1>1. Answers(s) = f[n]
  BY Zenon DEF Answers
<1>2. n \in Nat /\ <<>> \in S
  OBVIOUS
<1>3. \A i \in 1 .. n : s[i].last \in BOOLEAN /\ s[i].req \in Nat
  <2>1. \A i \in 1 .. n : s[i] \in PieceType
    OBVIOUS
  <2> QED BY <2>1, Zenon DEF PieceType
<1>4. step \in [1 .. n -> [S -> S]]
  BY <1>3
<1> HIDE DEF n, S
<1>5. PICK g : IsTrace(g, n, S, <<>>, step)
  <2> HIDE DEF step
  <2> QED BY <1>2, <1>4, LoopTrace
<1>6. g \in [0 .. n -> S] /\ g[0] = <<>>
      /\ \A i \in 1 .. n : g[i] = step[i][g[i - 1]]
  BY <1>5 DEF IsTrace
<1>7. \A i \in 1 .. n : g[i - 1] \in S
  BY <1>2, <1>6
<1>8. \A i \in 1 .. n :
        g[i] = IF s[i].last THEN Append(g[i - 1], s[i].req) ELSE g[i - 1]
  BY <1>6, <1>7, Zenon
<1>9. g = [i \in 0 .. n |->
            IF i = 0 THEN <<>>
            ELSE IF s[i].last THEN Append(g[i - 1], s[i].req) ELSE g[i - 1]]
  <2>1. \A i \in 0 .. n : i = 0 \/ i \in 1 .. n
    BY <1>2
  <2> QED BY ONLY <1>6, <1>8, <2>1, Zenon
<1>10. f = [i \in 0 .. n |->
            IF i = 0 THEN <<>>
            ELSE IF s[i].last THEN Append(f[i - 1], s[i].req) ELSE f[i - 1]]
  BY <1>9, Zenon
<1> HIDE DEF f, step
<1>11. f[0] = <<>>
       /\ \A i \in 1 .. n :
            f[i] = IF s[i].last THEN Append(f[i - 1], s[i].req) ELSE f[i - 1]
  <2>1. 0 \in 0 .. n /\ \A i \in 1 .. n : i \in 0 .. n /\ i # 0
    BY <1>2
  <2> QED BY ONLY <1>10, <2>1, Zenon
<1>12. \A i \in 0 .. n : f[i] = g[i]
  <2> DEFINE T == {i \in 0 .. n : f[i] = g[i]}
  <2>1. 0 \in T
    BY <1>2, <1>6, <1>11
  <2>2. \A i \in 1 .. n : i - 1 \in T => i \in T
    BY <1>2, <1>8, <1>11
  <2> HIDE DEF T
  <2>3. \A i \in 0 .. n : i \in T
    BY <1>2, <2>1, <2>2, UpTo, Zenon
  <2> QED BY <2>3 DEF T
<1>13. f = g
  <2>1. DOMAIN f = 0 .. n
    BY <1>10, Zenon
  <2>2. f = [i \in 0 .. n |-> f[i]]
    BY <1>10, <2>1
  <2>3. g = [i \in 0 .. n |-> g[i]]
    BY <1>6
  <2> QED BY <2>2, <2>3, <1>12
<1>14. AnswersUpTo(s, f)
  BY <1>6, <1>11, <1>13 DEF AnswersUpTo, n, S
<1> QED BY <1>1, <1>14 DEF n

LEMMA AnswersUnique ==
  ASSUME NEW s \in Seq(PieceType), NEW t \in Seq(PieceType),
         NEW f, NEW g, AnswersUpTo(s, f), AnswersUpTo(t, g),
         NEW m \in Nat, m <= Len(s), m <= Len(t),
         \A i \in 1 .. m : s[i] = t[i]
  PROVE  f[m] = g[m]
<1> DEFINE T == {i \in 0 .. m : f[i] = g[i]}
<1>1. 0 \in T
  BY DEF AnswersUpTo
<1>2. \A i \in 1 .. m : i - 1 \in T => i \in T
  <2>1. Len(s) \in Nat /\ Len(t) \in Nat
    OBVIOUS
  <2>2. \A i \in 1 .. m : i \in 1 .. Len(s) /\ i \in 1 .. Len(t) /\ i \in 0 .. m
    BY <2>1
  <2>3. \A i \in 1 .. m :
          /\ f[i] = IF s[i].last THEN Append(f[i - 1], s[i].req) ELSE f[i - 1]
          /\ g[i] = IF t[i].last THEN Append(g[i - 1], t[i].req) ELSE g[i - 1]
    BY <2>2 DEF AnswersUpTo
  <2> QED BY <2>2, <2>3
<1> HIDE DEF T
<1>3. \A i \in 0 .. m : i \in T
  BY <1>1, <1>2, UpTo, Zenon
<1> QED BY <1>3 DEF T

LEMMA AnswersLemma ==
  ASSUME NEW s \in Seq(PieceType)
  PROVE  /\ Answers(s) \in Seq(Nat)
         /\ s = <<>> => Answers(s) = <<>>
         /\ \A p \in PieceType :
              Answers(Append(s, p)) =
                IF p.last THEN Append(Answers(s), p.req) ELSE Answers(s)
<1>1. PICK f : AnswersUpTo(s, f) /\ Answers(s) = f[Len(s)]
  BY AnswersTrace
<1>2. Answers(s) \in Seq(Nat)
  BY <1>1 DEF AnswersUpTo
<1>3. s = <<>> => Answers(s) = <<>>
  BY <1>1 DEF AnswersUpTo
<1>4. ASSUME NEW p \in PieceType
      PROVE  Answers(Append(s, p)) =
               IF p.last THEN Append(Answers(s), p.req) ELSE Answers(s)
  <2>1. PICK t : t = Append(s, p)
    BY Zenon
  <2>2. t \in Seq(PieceType) /\ Len(t) = Len(s) + 1 /\ t[Len(t)] = p
        /\ \A i \in 1 .. Len(s) : s[i] = t[i]
    BY <2>1
  <2>3. PICK g : AnswersUpTo(t, g) /\ Answers(t) = g[Len(t)]
    BY <2>2, AnswersTrace
  <2>4. Len(s) \in Nat
    OBVIOUS
  <2>5. f[Len(s)] = g[Len(s)]
    BY <1>1, <2>2, <2>3, <2>4, AnswersUnique
  <2>6. g[Len(t)] = IF t[Len(t)].last THEN Append(g[Len(t) - 1], t[Len(t)].req)
                    ELSE g[Len(t) - 1]
    BY <2>2, <2>3, <2>4 DEF AnswersUpTo
  <2> QED BY <1>1, <2>1, <2>2, <2>3, <2>4, <2>5, <2>6
<1> QED BY <1>2, <1>3, <1>4

LEMMA AnswersConcat ==
  ASSUME NEW a \in Seq(PieceType), NEW b \in Seq(PieceType)
  PROVE  Answers(a \o b) = Answers(a) \o Answers(b)
<1> DEFINE part(i) == SubSeq(b, 1, i)
           T == {i \in 0 .. Len(b) :
                   Answers(a \o part(i)) = Answers(a) \o Answers(part(i))}
<1>1. 0 \in T
  <2>1. part(0) = <<>>
    OBVIOUS
  <2>2. a \o <<>> = a /\ Answers(a) \o <<>> = Answers(a)
    BY AnswersLemma, ConcatEmptySeq
  <2>3. Answers(<<>>) = <<>>
    <3>1. <<>> \in Seq(PieceType)
      OBVIOUS
    <3>2. PICK e : e = <<>>
      OBVIOUS
    <3> QED BY <3>1, <3>2, AnswersLemma, Zenon
  <2>4. Answers(a \o part(0)) = Answers(a) \o Answers(part(0))
    BY <2>1, <2>2, <2>3, Zenon
  <2> QED BY <2>4
<1>2. ASSUME NEW i \in 1 .. Len(b), i - 1 \in T
      PROVE  i \in T
  <2>1. PICK s, p : s = part(i - 1) /\ p = b[i]
    BY Zenon
  <2>2. s \in Seq(PieceType) /\ p \in PieceType /\ part(i) = Append(s, p)
    BY <2>1
  <2>3. a \o part(i) = Append(a \o s, p)
    <3>1. s \in Seq(PieceType) /\ p \in PieceType
      BY <2>2
    <3>2. a \o Append(s, p) = Append(a \o s, p)
      BY ONLY <3>1, a \in Seq(PieceType), ConcatAppend
    <3> QED BY <2>2, <3>2, Zenon
  <2>4. a \o s \in Seq(PieceType)
    BY <2>2
  <2>5. Answers(a \o s) = Answers(a) \o Answers(s)
    BY <1>2, <2>1
  <2>6. Answers(part(i)) = IF p.last THEN Append(Answers(s), p.req) ELSE Answers(s)
    BY <2>2, AnswersLemma, Zenon
  <2>7. Answers(a \o part(i)) =
          IF p.last THEN Append(Answers(a \o s), p.req) ELSE Answers(a \o s)
    BY <2>2, <2>3, <2>4, AnswersLemma, Zenon
  <2>8. Answers(a) \in Seq(Nat) /\ Answers(s) \in Seq(Nat) /\ p.req \in Nat
        /\ p.last \in BOOLEAN
    BY <2>2, AnswersLemma DEF PieceType
  <2>9. Append(Answers(a) \o Answers(s), p.req)
          = Answers(a) \o Append(Answers(s), p.req)
    <3>1. PICK u, v, x : u = Answers(a) /\ v = Answers(s) /\ x = p.req
      OBVIOUS
    <3>2. u \in Seq(Nat) /\ v \in Seq(Nat) /\ x \in Nat
      BY <2>8, <3>1
    <3>3. u \o Append(v, x) = Append(u \o v, x)
      BY ONLY <3>2, ConcatAppend
    <3> QED BY <3>1, <3>3
  <2>10. Answers(a \o part(i)) = Answers(a) \o Answers(part(i))
    BY <2>5, <2>6, <2>7, <2>8, <2>9, Zenon
  <2> HIDE DEF part
  <2> QED BY <2>10
<1>3. part(Len(b)) = b /\ Len(b) \in Nat
  OBVIOUS
<1> HIDE DEF T
<1>4. \A i \in 0 .. Len(b) : i \in T
  BY <1>1, <1>2, <1>3, UpTo, Zenon
<1>5. Len(b) \in T
  BY <1>3, <1>4
<1> QED BY <1>3, <1>5, Zenon DEF T

(***************************************************************************)
(* The first piece of a queue, and the rest.                               *)
(***************************************************************************)
LEMMA AnswersOfOne ==
  ASSUME NEW p \in PieceType
  PROVE  Answers(<<p>>) = IF p.last THEN <<p.req>> ELSE <<>>
<1>1. <<>> \in Seq(PieceType) /\ <<p>> = Append(<<>>, p)
  OBVIOUS
<1>2. PICK e : e = <<>>
  OBVIOUS
<1>3. Answers(e) = <<>> /\ Answers(Append(e, p)) =
        IF p.last THEN Append(Answers(e), p.req) ELSE Answers(e)
  BY <1>1, <1>2, AnswersLemma, Zenon
<1>4. Append(<<>>, p.req) = <<p.req>>
  OBVIOUS
<1> QED BY <1>1, <1>2, <1>3, <1>4

LEMMA HeadAndTail ==
  ASSUME NEW S, NEW s \in Seq(S), s # <<>>
  PROVE  /\ s[1] \in S /\ Head(s) = s[1] /\ Tail(s) \in Seq(S)
         /\ s = <<s[1]>> \o Tail(s)
         /\ \A a \in Seq(S) : Append(a, s[1]) \o Tail(s) = a \o s
         /\ \A a \in Seq(S) : s \o a # <<>> /\ Tail(s \o a) = Tail(s) \o a
                              /\ (s \o a)[1] = s[1]
<1>1. PICK h, t : h = s[1] /\ t = Tail(s)
  BY Zenon
<1>2. h \in S /\ Head(s) = h /\ t \in Seq(S) /\ s = <<h>> \o t
  BY <1>1
<1>3. <<h>> \in Seq(S)
  BY <1>2
<1>4. ASSUME NEW a \in Seq(S)
      PROVE  Append(a, h) \o t = a \o s
  <2>1. (a \o <<h>>) \o t = a \o (<<h>> \o t)
    BY <1>2, <1>3, ConcatAssociative
  <2>2. Append(a, h) = a \o <<h>>
    BY <1>2, AppendIsConcat
  <2> QED BY <1>2, <2>1, <2>2
<1>5. ASSUME NEW a \in Seq(S)
      PROVE  s \o a # <<>> /\ Tail(s \o a) = t \o a /\ (s \o a)[1] = h
  <2>1. PICK b : b = t \o a /\ b \in Seq(S)
    <3>1. t \o a \in Seq(S)
      BY <1>2
    <3> QED BY <3>1, Zenon
  <2>2. s \o a = <<h>> \o b
    BY <1>2, <1>3, <2>1, ConcatAssociative
  <2>3. <<h>> \o b # <<>> /\ Tail(<<h>> \o b) = b /\ (<<h>> \o b)[1] = h
    BY <1>2, <2>1
  <2> QED BY <2>1, <2>2, <2>3
<1> QED BY <1>1, <1>2, <1>4, <1>5, Zenon

LEMMA AnswersHead ==
  ASSUME NEW s \in Seq(PieceType), s # <<>>
  PROVE  Answers(s) = IF s[1].last THEN <<s[1].req>> \o Answers(Tail(s))
                      ELSE Answers(Tail(s))
<1>1. PICK h, t : h = s[1] /\ t = Tail(s)
  BY Zenon
<1>2. h \in PieceType /\ t \in Seq(PieceType) /\ s = <<h>> \o t
  BY <1>1, HeadAndTail
<1>3. <<h>> \in Seq(PieceType)
  BY <1>2
<1>4. Answers(s) = Answers(<<h>>) \o Answers(t)
  BY <1>2, <1>3, AnswersConcat, Zenon
<1>5. Answers(t) \in Seq(Nat)
  BY <1>2, AnswersLemma
<1>6. <<>> \o Answers(t) = Answers(t)
  BY <1>5, ConcatEmptySeq
<1> QED BY <1>1, <1>2, <1>4, <1>6, AnswersOfOne, Zenon

(***************************************************************************)
(* insertWrite and transferRead split a piece that is too large: what is   *)
(* at the front fits, and the pieces answer the same requests.             *)
(***************************************************************************)
LEMMA UnitFits ==
  calcSize(TransferUnit) <= QueueSize
<1>1. (TransferUnit + TransferUnit - 1) \div TransferUnit = 1
  BY FIFOAssumption
<1> QED BY <1>1, FIFOAssumption DEF calcSize

LEMMA SplitLemma ==
  ASSUME NEW w \in Seq(PieceType), w # <<>>
  PROVE  /\ Split(w) \in Seq(PieceType) /\ Split(w) # <<>>
         /\ Head(Split(w)) = Split(w)[1]
         /\ calcSize(Split(w)[1].size) <= QueueSize
         /\ Answers(Split(w)) = Answers(w)
<1> DEFINE p == Head(w)
           a == [p EXCEPT !.size = TransferUnit, !.last = FALSE]
           b == [p EXCEPT !.addr = @ + TransferUnit, !.size = @ - TransferUnit]
<1>1. p \in PieceType /\ p = w[1] /\ Tail(w) \in Seq(PieceType)
  BY HeadAndTail
<1>2. CASE calcSize(p.size) <= QueueSize
  BY <1>1, <1>2 DEF Split
<1>3. CASE ~(calcSize(p.size) <= QueueSize)
  <2>1. a \in PieceType /\ b \in PieceType /\ ~a.last
        /\ b.last = p.last /\ b.req = p.req /\ a.size = TransferUnit
    <3>1. PICK q : q = p
      OBVIOUS
    <3>2. q \in PieceType /\ TransferUnit \in Int
      BY <1>1, <3>1, FIFOAssumption
    <3>3. q.addr + TransferUnit \in Int /\ q.size - TransferUnit \in Int
      BY <3>2 DEF PieceType
    <3> HIDE DEF p
    <3> QED BY <3>1, <3>2, <3>3, Zenon DEF PieceType
  <2>2. Split(w) = <<a, b>> \o Tail(w)
    BY <1>3 DEF Split
  <2>3. PICK x, y, t : x = a /\ y = b /\ t = Tail(w)
    BY Zenon
  <2> HIDE DEF a, b, p
  <2>4. <<x, y>> \in Seq(PieceType) /\ t \in Seq(PieceType)
    BY <1>1, <2>1, <2>3
  <2>5. /\ <<x, y>> \o t \in Seq(PieceType) /\ <<x, y>> \o t # <<>>
        /\ Head(<<x, y>> \o t) = x /\ (<<x, y>> \o t)[1] = x
        /\ Tail(<<x, y>> \o t) = <<y>> \o t
    BY <2>1, <2>3, <2>4
  <2>6. Answers(<<x, y>> \o t) = Answers(<<y>> \o t)
    BY <2>1, <2>3, <2>5, AnswersHead, Zenon
  <2>7. /\ <<y>> \o t \in Seq(PieceType) /\ <<y>> \o t # <<>>
        /\ (<<y>> \o t)[1] = y /\ Tail(<<y>> \o t) = t
    BY <2>1, <2>3, <2>4
  <2>8. Answers(<<y>> \o t) = Answers(w)
    BY <1>1, <2>1, <2>3, <2>7, AnswersHead, Zenon
  <2> QED BY <2>1, <2>2, <2>3, <2>5, <2>6, <2>8, UnitFits
<1> QED BY <1>2, <1>3

-----------------------------------------------------------------------------
(***************************************************************************)
(* Filling a queue leaves the piece at work in its second half alone.      *)
(***************************************************************************)
FrontKept(q, t) ==
  q.transfer # <<>> => t.transfer # <<>> /\ t.transfer[1] = q.transfer[1]

WriteKept(q, t) ==
  /\ t.transferPending = q.transferPending /\ t.dma = q.dma
  /\ t.submitCompletion = q.submitCompletion
  /\ FrontKept(q, t)

ReadKept(q, t) ==
  /\ t.insertPending = q.insertPending /\ t.insertDone = q.insertDone
  /\ t.submitCompletion = q.submitCompletion
  /\ FrontKept(q, t)

LEMMA QueueFields ==
  ASSUME NEW q \in QueueType
  PROVE  /\ q.wait \in Seq(PieceType) /\ q.transfer \in Seq(PieceType)
         /\ q.usage \in Int /\ q.counter \in Nat
         /\ q.insertPending \in BOOLEAN /\ q.transferPending \in BOOLEAN
         /\ q.insertDone \in BOOLEAN /\ q.beginTransfer \in BOOLEAN
         /\ q.submitCompletion \in BOOLEAN /\ q.dma \in BOOLEAN
BY DEF QueueType

LEMMA PieceFields ==
  ASSUME NEW p \in PieceType
  PROVE  /\ p.req \in Nat /\ p.addr \in Int /\ p.size \in Int
         /\ p.last \in BOOLEAN /\ p.id \in Nat
BY DEF PieceType

LEMMA CalcSizeType ==
  ASSUME NEW n \in Int
  PROVE  calcSize(n) \in Int
<1>1. (n + TransferUnit - 1) \div TransferUnit \in Int
  BY FIFOAssumption
<1> QED BY <1>1, FIFOAssumption DEF calcSize

LEMMA UnansweredLemma ==
  ASSUME NEW q \in QueueType, NEW b \in BOOLEAN, b => q.wait # <<>>
  PROVE  /\ Waiting(q, b) \in Seq(PieceType)
         /\ Unanswered(q, b) = Answers(q.transfer) \o Answers(Waiting(q, b))
         /\ Unanswered(q, b) \in Seq(Nat)
<1>1. Waiting(q, b) \in Seq(PieceType)
  BY QueueFields, HeadAndTail DEF Waiting
<1>2. q.transfer \in Seq(PieceType)
  BY QueueFields
<1>3. q.transfer \o Waiting(q, b) \in Seq(PieceType)
  BY <1>1, <1>2
<1> QED BY <1>1, <1>2, <1>3, AnswersConcat, AnswersLemma, Zenon DEF Unanswered

LEMMA InsertWriteLemma ==
  ASSUME NEW q, WriteInv(q), NEW t, t = insertWrite(q)
  PROVE  /\ WriteInv(t) /\ WriteKept(q, t)
         /\ Unanswered(t, t.insertPending) = Unanswered(q, q.insertPending)
<1>1. CASE q.wait = <<>> \/ Blocked(q, q.insertPending)
  BY <1>1, Zenon DEF insertWrite, WriteKept, FrontKept
<1>2. CASE ~(q.wait = <<>> \/ Blocked(q, q.insertPending))
  <2>1. q \in QueueType /\ q.wait \in Seq(PieceType) /\ q.wait # <<>>
        /\ q.transfer \in Seq(PieceType) /\ q.usage \in Int
    BY <1>2, QueueFields DEF WriteInv
  <2>2. ~q.insertPending
    <3>1. Head(q.wait) = q.wait[1]
      BY <2>1, HeadAndTail
    <3> QED BY <1>2, <2>1, <3>1 DEF WriteInv, HeadFits, Blocked
  <2>3. PICK w : w = Split(q.wait)
    OBVIOUS
  <2>4. w \in Seq(PieceType) /\ w # <<>> /\ Head(w) = w[1]
        /\ calcSize(w[1].size) <= QueueSize /\ Answers(w) = Answers(q.wait)
    BY <2>1, <2>3, SplitLemma
  <2>5. PICK p, u : p = w[1] /\ u = Tail(w)
    BY Zenon
  <2>6. p \in PieceType /\ u \in Seq(PieceType) /\ p.size \in Int
    BY <2>4, <2>5, HeadAndTail, PieceFields
  <2>7. calcSize(p.size) \in Int
    BY <2>6, CalcSizeType, Zenon
  <2>8. PICK x : x = q.usage + calcSize(p.size) /\ x \in Int
    <3>1. q.usage + calcSize(p.size) \in Int
      BY <2>1, <2>7
    <3> QED BY <3>1
  <2>9. PICK a : a = Append(q.transfer, p) /\ a \in Seq(PieceType)
              /\ Len(a) = Len(q.transfer) + 1 /\ a # <<>>
              /\ (q.transfer # <<>> => a[1] = q.transfer[1])
    <3>1. PICK r : r = q.transfer
      OBVIOUS
    <3>2. r \in Seq(PieceType)
      BY <2>1, <3>1
    <3>3. Append(r, p) \in Seq(PieceType) /\ Len(Append(r, p)) = Len(r) + 1
          /\ Append(r, p) # <<>> /\ (r # <<>> => Append(r, p)[1] = r[1])
      BY ONLY <3>2, <2>6
    <3> QED BY <3>1, <3>3, Zenon
  <2>10. t = [q EXCEPT !.wait = w, !.insertPending = TRUE, !.usage = x,
                       !.insertDone = TRUE, !.beginTransfer = TRUE,
                       !.transfer = a]
    BY <1>2, <2>3, <2>4, <2>5, <2>8, <2>9, Zenon DEF insertWrite
  <2>11. /\ t \in QueueType
         /\ t.wait = w /\ t.transfer = a /\ t.insertPending /\ t.insertDone
         /\ t.beginTransfer /\ t.transferPending = q.transferPending
         /\ t.submitCompletion = q.submitCompletion /\ t.dma = q.dma
    BY <2>1, <2>4, <2>8, <2>9, <2>10, Zenon DEF QueueType
  <2>12. WriteKept(q, t)
    BY <2>9, <2>11 DEF WriteKept, FrontKept
  <2>13. WriteInv(t)
    <3>1. Len(t.transfer) = Len(q.transfer) + 1 /\ Len(q.transfer) \in Nat
          /\ (q.transfer # <<>> => Len(q.transfer) > 0)
      BY <2>1, <2>9, <2>11
    <3>2. BeginHasPiece(t, t.transferPending)
      BY <2>1, <2>11, <3>1 DEF BeginHasPiece, WriteInv
    <3> QED BY <2>4, <2>9, <2>11, <3>2 DEF WriteInv, HeadFits
  <2>14. Unanswered(t, t.insertPending) = Unanswered(q, q.insertPending)
    <3>1. Unanswered(q, q.insertPending) = Answers(q.transfer) \o Answers(q.wait)
      BY <2>1, <2>2, QueueFields, UnansweredLemma, Zenon DEF Waiting
    <3>2. Answers(q.transfer) \o Answers(q.wait) = Answers(q.transfer \o w)
      BY <2>1, <2>4, AnswersConcat, Zenon
    <3>3. a \o u = q.transfer \o w
      <4>1. PICK r : r = q.transfer
        OBVIOUS
      <4>2. r \in Seq(PieceType) /\ w \in Seq(PieceType) /\ w # <<>>
        BY <2>1, <2>4, <4>1
      <4>3. Append(r, w[1]) \o Tail(w) = r \o w
        BY ONLY <4>2, HeadAndTail
      <4> QED BY <2>5, <2>9, <4>1, <4>3, Zenon
    <3>4. Unanswered(t, t.insertPending) = Answers(a \o u)
      BY <2>5, <2>11 DEF Unanswered, Waiting
    <3> QED BY <3>1, <3>2, <3>3, <3>4
  <2> QED BY <2>12, <2>13, <2>14
<1> QED BY <1>1, <1>2

(***************************************************************************)
(* The queue with a new request behind the others.                         *)
(***************************************************************************)
LEMMA AppendedPiece ==
  ASSUME NEW q \in QueueType, NEW b \in BOOLEAN, b => q.wait # <<>>,
         NEW p \in PieceType, p.last,
         NEW t, t = [q EXCEPT !.wait = Append(@, p)]
  PROVE  /\ t \in QueueType /\ t.wait # <<>>
         /\ q.wait # <<>> => t.wait[1] = q.wait[1]
         /\ Unanswered(t, b) = Append(Unanswered(q, b), p.req)
<1>1. PICK w, a : w = q.wait /\ a = q.transfer
  OBVIOUS
<1>2. w \in Seq(PieceType) /\ a \in Seq(PieceType)
  BY <1>1, QueueFields
<1>3. Append(w, p) \in Seq(PieceType) /\ Append(w, p) # <<>>
      /\ (w # <<>> => Append(w, p)[1] = w[1] /\ Tail(Append(w, p)) = Append(Tail(w), p)
                      /\ Tail(w) \in Seq(PieceType))
  BY ONLY <1>2, p \in PieceType
<1>4. t \in QueueType /\ t.wait = Append(w, p) /\ t.transfer = a
  BY <1>1, <1>3, Zenon DEF QueueType
<1>5. PICK v : v = Waiting(q, b) /\ v \in Seq(PieceType)
  <2>1. Waiting(q, b) \in Seq(PieceType)
    BY UnansweredLemma
  <2> QED BY <2>1
<1>6. Waiting(t, b) = Append(v, p)
  BY <1>1, <1>3, <1>4, <1>5 DEF Waiting
<1>7. Unanswered(t, b) = Answers(a \o Append(v, p))
  BY <1>4, <1>6, Zenon DEF Unanswered
<1>8. a \o Append(v, p) = Append(a \o v, p) /\ a \o v \in Seq(PieceType)
  <2>1. a \in Seq(PieceType) /\ v \in Seq(PieceType) /\ p \in PieceType
    BY <1>2, <1>5
  <2>2. a \o Append(v, p) = Append(a \o v, p)
    BY ONLY <2>1, ConcatAppend
  <2> QED BY <2>1, <2>2
<1>9. Answers(Append(a \o v, p)) = Append(Answers(a \o v), p.req)
  BY <1>8, AnswersLemma, Zenon
<1>10. Unanswered(q, b) = Answers(a \o v)
  BY <1>1, <1>5 DEF Unanswered
<1> QED BY <1>1, <1>3, <1>4, <1>7, <1>8, <1>9, <1>10, Zenon

LEMMA DmaWriteLemma ==
  ASSUME NEW q, WriteInv(q), NEW r \in Nat, NEW size \in Int,
         NEW t, t = dmaWrite(q, r, size)
  PROVE  /\ WriteInv(t) /\ WriteKept(q, t)
         /\ \/ Unanswered(t, t.insertPending) = Unanswered(q, q.insertPending)
            \/ Unanswered(t, t.insertPending)
                 = Append(Unanswered(q, q.insertPending), r)
<1>1. CASE size = 0
  BY <1>1 DEF dmaWrite, WriteKept, FrontKept
<1>2. CASE size # 0
  <2>1. PICK p : p = FIFOEntry(r, size)
    OBVIOUS
  <2>2. p \in PieceType /\ p.last /\ p.req = r
    BY <2>1 DEF PieceType, FIFOEntry
  <2>3. PICK u : u = [q EXCEPT !.wait = Append(@, p)]
    BY Zenon
  <2>4. q \in QueueType /\ q.insertPending \in BOOLEAN
        /\ (q.insertPending => q.wait # <<>>)
    BY QueueFields DEF WriteInv, HeadFits
  <2>5. /\ u \in QueueType /\ u.wait # <<>>
        /\ q.wait # <<>> => u.wait[1] = q.wait[1]
        /\ Unanswered(u, q.insertPending)
             = Append(Unanswered(q, q.insertPending), r)
    <3>1. PICK b : b = q.insertPending
      OBVIOUS
    <3>2. b \in BOOLEAN /\ (b => q.wait # <<>>) /\ q \in QueueType
      BY <2>4, <3>1
    <3>3. /\ u \in QueueType /\ u.wait # <<>>
          /\ q.wait # <<>> => u.wait[1] = q.wait[1]
          /\ Unanswered(u, b) = Append(Unanswered(q, b), p.req)
      BY <2>2, <2>3, <3>2, AppendedPiece, Zenon
    <3> QED BY <2>2, <3>1, <3>3
  <2>6. /\ u.insertPending = q.insertPending /\ u.insertDone = q.insertDone
        /\ u.transferPending = q.transferPending /\ u.dma = q.dma
        /\ u.submitCompletion = q.submitCompletion
        /\ u.beginTransfer = q.beginTransfer /\ u.transfer = q.transfer
    BY <2>3, <2>4 DEF QueueType
  <2>7. WriteInv(u)
    BY <2>5, <2>6 DEF WriteInv, HeadFits, BeginHasPiece
  <2>8. t = insertWrite(u)
    BY <1>2, <2>1, <2>3 DEF dmaWrite
  <2>9. /\ WriteInv(t) /\ WriteKept(u, t)
        /\ Unanswered(t, t.insertPending) = Unanswered(u, u.insertPending)
    BY <2>7, <2>8, InsertWriteLemma
  <2> QED BY <2>5, <2>6, <2>9 DEF WriteKept, FrontKept
<1> QED BY <1>1, <1>2

(***************************************************************************)
(* The events of the write queue.                                          *)
(***************************************************************************)
LEMMA InsertWriteDoneLemma ==
  ASSUME NEW q, WriteInv(q), q.insertDone, NEW t, t = insertWriteDone(q)
  PROVE  /\ WriteInv(t)
         /\ Unanswered(t, t.insertPending) = Unanswered(q, q.insertPending)
<1>1. q \in QueueType /\ q.insertPending /\ q.wait \in Seq(PieceType)
      /\ q.wait # <<>>
  BY QueueFields DEF WriteInv, HeadFits
<1>2. PICK u : u = [q EXCEPT !.wait = Tail(@), !.insertPending = FALSE,
                             !.insertDone = FALSE]
  OBVIOUS
<1>3. Tail(q.wait) \in Seq(PieceType)
  BY <1>1, HeadAndTail
<1>4. /\ u \in QueueType /\ u.wait = Tail(q.wait)
      /\ ~u.insertPending /\ ~u.insertDone
      /\ u.transferPending = q.transferPending /\ u.dma = q.dma
      /\ u.submitCompletion = q.submitCompletion
      /\ u.beginTransfer = q.beginTransfer /\ u.transfer = q.transfer
  BY <1>1, <1>2, <1>3, Zenon DEF QueueType
<1>5. WriteInv(u)
  BY <1>4 DEF WriteInv, BeginHasPiece
<1>6. Unanswered(u, u.insertPending) = Unanswered(q, q.insertPending)
  BY <1>1, <1>4 DEF Unanswered, Waiting
<1>7. t = insertWrite(u)
  BY <1>2 DEF insertWriteDone
<1> QED BY <1>5, <1>6, <1>7, InsertWriteLemma

LEMMA TransferWriteLemma ==
  ASSUME NEW q, WriteInv(q), q.transfer # <<>>, ~q.beginTransfer,
         NEW t, t = transferWrite(q)
  PROVE  /\ WriteInv(t) /\ t.transfer = q.transfer
         /\ Unanswered(t, t.insertPending) = Unanswered(q, q.insertPending)
<1>1. CASE q.transferPending
  BY <1>1 DEF transferWrite
<1>2. CASE ~q.transferPending
  <2>1. q \in QueueType /\ ~q.dma /\ ~q.submitCompletion
    BY <1>2, QueueFields DEF WriteInv
  <2>2. t = [q EXCEPT !.transferPending = TRUE, !.dma = TRUE]
    BY <1>2 DEF transferWrite
  <2>3. /\ t \in QueueType /\ t.wait = q.wait /\ t.transfer = q.transfer
        /\ t.insertPending = q.insertPending /\ t.insertDone = q.insertDone
        /\ t.beginTransfer = q.beginTransfer /\ t.transferPending /\ t.dma
        /\ t.submitCompletion = q.submitCompletion
    BY <2>1, <2>2, Zenon DEF QueueType
  <2>4. WriteInv(t)
    BY <2>1, <2>3 DEF WriteInv, HeadFits, BeginHasPiece
  <2> QED BY <2>3, <2>4 DEF Unanswered, Waiting
<1> QED BY <1>1, <1>2

LEMMA BeginTransferWriteLemma ==
  ASSUME NEW q, WriteInv(q), q.beginTransfer,
         NEW t, t = transferWrite([q EXCEPT !.beginTransfer = FALSE])
  PROVE  /\ WriteInv(t)
         /\ Unanswered(t, t.insertPending) = Unanswered(q, q.insertPending)
<1>1. PICK u : u = [q EXCEPT !.beginTransfer = FALSE]
  OBVIOUS
<1>2. q \in QueueType /\ q.transfer \in Seq(PieceType)
  BY QueueFields DEF WriteInv
<1>3. q.transfer # <<>>
  BY <1>2 DEF WriteInv, BeginHasPiece
<1>4. /\ u \in QueueType /\ u.wait = q.wait /\ u.transfer = q.transfer
      /\ u.insertPending = q.insertPending /\ u.insertDone = q.insertDone
      /\ ~u.beginTransfer /\ u.transferPending = q.transferPending
      /\ u.dma = q.dma /\ u.submitCompletion = q.submitCompletion
  BY <1>1, <1>2, Zenon DEF QueueType
<1>5. WriteInv(u)
  BY <1>4 DEF WriteInv, HeadFits, BeginHasPiece
<1>6. Unanswered(u, u.insertPending) = Unanswered(q, q.insertPending)
  BY <1>4 DEF Unanswered, Waiting
<1> QED BY <1>1, <1>3, <1>4, <1>5, <1>6, TransferWriteLemma, Zenon

WriteTransferred(q) == [q EXCEPT !.dma = FALSE, !.submitCompletion = TRUE]

LEMMA TransferWriteDoneLemma ==
  ASSUME NEW q, WriteInv(q), q.dma, NEW t, t = WriteTransferred(q)
  PROVE  /\ WriteInv(t)
         /\ Unanswered(t, t.insertPending) = Unanswered(q, q.insertPending)
<1>1. q \in QueueType
  BY DEF WriteInv
<1>2. /\ t \in QueueType /\ t.wait = q.wait /\ t.transfer = q.transfer
      /\ t.insertPending = q.insertPending /\ t.insertDone = q.insertDone
      /\ t.beginTransfer = q.beginTransfer
      /\ t.transferPending = q.transferPending
      /\ ~t.dma /\ t.submitCompletion
  BY <1>1, Zenon DEF QueueType, WriteTransferred
<1>3. WriteInv(t)
  BY <1>2 DEF WriteInv, HeadFits, BeginHasPiece
<1> QED BY <1>2, <1>3 DEF Unanswered, Waiting

(***************************************************************************)
(* The first piece of the buffer is finished: it was the first of those    *)
(* that wait for an answer.                                                *)
(***************************************************************************)
LEMMA FirstFinished ==
  ASSUME NEW q \in QueueType, NEW b \in BOOLEAN, b => q.wait # <<>>,
         q.transfer # <<>>,
         NEW t \in QueueType, t.wait = q.wait, t.transfer = Tail(q.transfer)
  PROVE  /\ q.transfer[1] \in PieceType
         /\ Unanswered(t, b) \in Seq(Nat)
         /\ Unanswered(q, b) =
              IF q.transfer[1].last
              THEN <<q.transfer[1].req>> \o Unanswered(t, b)
              ELSE Unanswered(t, b)
<1>1. PICK a, v : a = q.transfer /\ v = Waiting(q, b)
  OBVIOUS
<1>2. a \in Seq(PieceType) /\ a # <<>> /\ v \in Seq(PieceType)
  BY <1>1, QueueFields, UnansweredLemma
<1>3. Waiting(t, b) = v
  BY <1>1 DEF Waiting
<1>4. a \o v # <<>> /\ Tail(a \o v) = Tail(a) \o v /\ (a \o v)[1] = a[1]
      /\ a[1] \in PieceType
  BY <1>2, HeadAndTail
<1>5. a \o v \in Seq(PieceType)
  BY <1>2
<1>6. Answers(a \o v) = IF a[1].last THEN <<a[1].req>> \o Answers(Tail(a) \o v)
                        ELSE Answers(Tail(a) \o v)
  BY <1>4, <1>5, AnswersHead, Zenon
<1>7. Unanswered(q, b) = Answers(a \o v) /\ Unanswered(t, b) = Answers(Tail(a) \o v)
  BY <1>1, <1>3 DEF Unanswered
<1>8. Unanswered(t, b) \in Seq(Nat)
  BY UnansweredLemma
<1> QED BY <1>1, <1>4, <1>6, <1>7, <1>8

LEMMA WriteFinishedLemma ==
  ASSUME NEW q, WriteInv(q), q.transferPending, ~q.dma, ~q.submitCompletion,
         NEW t, t = transferWriteDoneNext(q)
  PROVE  /\ WriteInv(t)
         /\ q.transfer[1] \in PieceType
         /\ Unanswered(t, t.insertPending) \in Seq(Nat)
         /\ Unanswered(q, q.insertPending) =
              IF q.transfer[1].last
              THEN <<q.transfer[1].req>> \o Unanswered(t, t.insertPending)
              ELSE Unanswered(t, t.insertPending)
<1>1. q \in QueueType /\ q.transfer \in Seq(PieceType) /\ q.transfer # <<>>
      /\ q.insertPending \in BOOLEAN /\ (q.insertPending => q.wait # <<>>)
      /\ q.usage \in Int
  BY QueueFields DEF WriteInv, HeadFits
<1>2. PICK x : x = q.usage - calcSize(Head(q.transfer).size) /\ x \in Int
  <2>1. q.usage - calcSize(Head(q.transfer).size) \in Int
    <3>1. Head(q.transfer) \in PieceType
      BY <1>1, HeadAndTail
    <3>2. calcSize(Head(q.transfer).size) \in Int
      BY <3>1, PieceFields, CalcSizeType
    <3> QED BY <1>1, <3>2
  <2> QED BY <2>1
<1>3. PICK u : u = [q EXCEPT !.usage = x, !.transferPending = FALSE,
                             !.transfer = Tail(@)]
  OBVIOUS
<1>4. Tail(q.transfer) \in Seq(PieceType)
      /\ Len(Tail(q.transfer)) = Len(q.transfer) - 1 /\ Len(q.transfer) \in Nat
  <2>1. PICK a : a = q.transfer
    OBVIOUS
  <2>2. a \in Seq(PieceType) /\ a # <<>>
    BY <1>1, <2>1
  <2>3. Tail(a) \in Seq(PieceType) /\ Len(Tail(a)) = Len(a) - 1 /\ Len(a) \in Nat
    BY ONLY <2>2
  <2> QED BY <2>1, <2>3
<1>5. /\ u \in QueueType /\ u.wait = q.wait /\ u.transfer = Tail(q.transfer)
      /\ u.insertPending = q.insertPending /\ u.insertDone = q.insertDone
      /\ u.beginTransfer = q.beginTransfer /\ ~u.transferPending
      /\ ~u.dma /\ ~u.submitCompletion
  BY <1>1, <1>2, <1>3, <1>4, Zenon DEF QueueType
<1>6. WriteInv(u)
  <2>1. BeginHasPiece(u, u.transferPending)
    BY <1>4, <1>5 DEF WriteInv, BeginHasPiece
  <2> QED BY <1>5, <2>1 DEF WriteInv, HeadFits
<1>7. /\ q.transfer[1] \in PieceType
      /\ Unanswered(u, u.insertPending) \in Seq(Nat)
      /\ Unanswered(q, q.insertPending) =
           IF q.transfer[1].last
           THEN <<q.transfer[1].req>> \o Unanswered(u, u.insertPending)
           ELSE Unanswered(u, u.insertPending)
  BY <1>1, <1>5, FirstFinished, Zenon
<1>8. PICK v : v = IF u.transfer # <<>> /\ ~u.beginTransfer THEN transferWrite(u)
                   ELSE u
  OBVIOUS
<1>9. WriteInv(v)
      /\ Unanswered(v, v.insertPending) = Unanswered(u, u.insertPending)
  <2>1. CASE u.transfer # <<>> /\ ~u.beginTransfer
    BY <1>6, <1>8, <2>1, TransferWriteLemma
  <2>2. CASE ~(u.transfer # <<>> /\ ~u.beginTransfer)
    BY <1>6, <1>8, <2>2
  <2> QED BY <2>1, <2>2
<1>10. t = insertWrite(v)
  BY <1>2, <1>3, <1>8 DEF transferWriteDoneNext
<1>11. WriteInv(t)
       /\ Unanswered(t, t.insertPending) = Unanswered(v, v.insertPending)
  BY <1>9, <1>10, InsertWriteLemma
<1> QED BY <1>7, <1>9, <1>11

-----------------------------------------------------------------------------
(***************************************************************************)
(* The halves a piece has behind it, when only the flags of the queue      *)
(* change in a way that leaves them alone.                                 *)
(***************************************************************************)
LEMMA SameHalves ==
  ASSUME NEW q, NEW t, t.transfer = q.transfer,
         t.transferPending = q.transferPending,
         (t.insertPending /\ ~t.insertDone) <=> (q.insertPending /\ ~q.insertDone)
  PROVE  /\ Halfway(t) = Halfway(q)
         /\ Transferred(t, 1) <=> Transferred(q, 1)
         /\ InsertedRead(t, 1) <=> InsertedRead(q, 1)
BY DEF Halfway, Transferred, InsertedRead

(***************************************************************************)
(* transferRead fills the queue: a piece is added that has no half behind  *)
(* it.                                                                     *)
(***************************************************************************)
LEMMA AddedHalves ==
  ASSUME NEW q \in QueueType, NEW t \in QueueType, NEW p \in PieceType,
         t.transfer = Append(q.transfer, p), ~q.transferPending,
         t.transferPending,
         t.insertPending = q.insertPending, t.insertDone = q.insertDone,
         q.insertPending => q.transfer # <<>>
  PROVE  /\ Halfway(t) = Halfway(q)
         /\ InsertedRead(q, 1) => Transferred(t, 1)
         /\ InsertedRead(t, 1) <=> InsertedRead(q, 1)
<1>1. PICK a, b, n : a = q.transfer /\ b = t.transfer /\ n = Len(a)
  BY Zenon
<1>2. a \in Seq(PieceType) /\ b = Append(a, p) /\ n = Len(a)
  BY <1>1, QueueFields
<1>3. n \in Nat /\ Len(b) = n + 1 /\ (\A i \in 1 .. n : b[i] = a[i])
      /\ (a # <<>> => n > 0)
  BY ONLY <1>2, p \in PieceType
<1>4. \A i \in 1 .. n : Transferred(t, i) /\ Transferred(q, i)
  BY <1>1, <1>3 DEF Transferred
<1>5. ~Transferred(t, n + 1)
  BY <1>1, <1>3 DEF Transferred
<1>6. \A i : InsertedRead(t, i) <=> InsertedRead(q, i)
  BY DEF InsertedRead
<1>7. ~InsertedRead(t, n + 1)
  BY <1>1, <1>3 DEF InsertedRead
<1>8. \A i \in 1 .. n + 1 : i \in 1 .. n \/ i = n + 1
  BY <1>3
<1>9. {j \in 1 .. Len(b) : ~(Transferred(t, j) <=> InsertedRead(t, j))}
        = {j \in 1 .. Len(a) : ~(Transferred(q, j) <=> InsertedRead(q, j))}
  BY <1>1, <1>3, <1>4, <1>5, <1>6, <1>7, <1>8
<1>10. Halfway(t) = Halfway(q)
  BY <1>1, <1>3, <1>9 DEF Halfway
<1>11. InsertedRead(q, 1) => Transferred(t, 1)
  BY <1>1, <1>3, <1>4 DEF InsertedRead
<1> QED BY <1>6, <1>10, <1>11

LEMMA ReadFields ==
  ASSUME NEW q, NEW done, ReadInv(q, done)
  PROVE  /\ q \in QueueType /\ q.wait \in Seq(PieceType)
         /\ q.transfer \in Seq(PieceType) /\ q.usage \in Int /\ q.counter \in Nat
         /\ q.transferPending \in BOOLEAN /\ q.insertPending \in BOOLEAN
         /\ q.transferPending => q.wait # <<>>
BY QueueFields DEF ReadInv, HeadFits

LEMMA TransferReadLemma ==
  ASSUME NEW q, NEW done, ReadInv(q, done), NEW t, t = transferRead(q)
  PROVE  /\ ReadInv(t, done) /\ ReadKept(q, t)
         /\ Unanswered(t, t.transferPending) = Unanswered(q, q.transferPending)
<1>1. CASE q.wait = <<>> \/ Blocked(q, q.transferPending)
  BY <1>1, Zenon DEF transferRead, ReadKept, FrontKept
<1>2. CASE ~(q.wait = <<>> \/ Blocked(q, q.transferPending))
  <2>1. q \in QueueType /\ q.wait \in Seq(PieceType) /\ q.wait # <<>>
        /\ q.transfer \in Seq(PieceType) /\ q.usage \in Int /\ q.counter \in Nat
    BY <1>2, ReadFields
  <2>2. ~q.transferPending
    <3>1. Head(q.wait) = q.wait[1]
      BY <2>1, HeadAndTail
    <3> QED BY <1>2, <2>1, <3>1 DEF ReadInv, HeadFits, Blocked
  <2>3. PICK w : w = Split(q.wait)
    OBVIOUS
  <2>4. w \in Seq(PieceType) /\ w # <<>> /\ Head(w) = w[1]
        /\ calcSize(w[1].size) <= QueueSize /\ Answers(w) = Answers(q.wait)
    BY <2>1, <2>3, SplitLemma
  <2>5. PICK h, u : h = w[1] /\ u = Tail(w)
    BY Zenon
  <2>6. h \in PieceType /\ u \in Seq(PieceType) /\ h.size \in Int
    BY <2>4, <2>5, HeadAndTail, PieceFields
  <2>7. PICK p : p = [h EXCEPT !.id = q.counter]
    BY Zenon
  <2>8. p \in PieceType /\ p.size = h.size /\ p.last = h.last
        /\ p.req = h.req /\ p.id = q.counter
    BY <2>1, <2>6, <2>7, Zenon DEF PieceType
  <2>9. PICK y : y = <<p>> \o u /\ y \in Seq(PieceType) /\ y # <<>>
              /\ y[1] = p /\ Tail(y) = u
    <3>1. <<p>> \o u \in Seq(PieceType) /\ <<p>> \o u # <<>>
          /\ (<<p>> \o u)[1] = p /\ Tail(<<p>> \o u) = u
      BY ONLY <2>6, <2>8
    <3> QED BY <3>1, Zenon
  <2>10. PICK x : x = q.usage + calcSize(p.size) /\ x \in Int
    <3>1. q.usage + calcSize(p.size) \in Int
      <4>1. calcSize(h.size) \in Int
        BY <2>6, CalcSizeType
      <4> QED BY <2>1, <2>8, <4>1
    <3> QED BY <3>1
  <2>11. PICK a : a = Append(q.transfer, p) /\ a \in Seq(PieceType)
              /\ Len(a) = Len(q.transfer) + 1 /\ a # <<>> /\ a[Len(a)] = p
              /\ (\A i \in 1 .. Len(q.transfer) : a[i] = q.transfer[i])
              /\ (q.transfer # <<>> => a[1] = q.transfer[1])
    <3>1. PICK r : r = q.transfer
      OBVIOUS
    <3>2. r \in Seq(PieceType)
      BY <2>1, <3>1
    <3>3. p \in PieceType
      BY <2>8
    <3>4. Append(r, p) \in Seq(PieceType) /\ Len(Append(r, p)) = Len(r) + 1
          /\ Append(r, p) # <<>> /\ Append(r, p)[Len(r) + 1] = p
      BY ONLY <3>2, <3>3
    <3>5. (\A i \in 1 .. Len(r) : Append(r, p)[i] = r[i])
          /\ (r # <<>> => Append(r, p)[1] = r[1])
      BY ONLY <3>2, <3>3
    <3> QED BY <3>1, <3>4, <3>5, Zenon
  <2>12. t = [q EXCEPT !.wait = y, !.transferPending = TRUE,
                       !.counter = @ + 1, !.usage = x, !.dma = TRUE,
                       !.beginTransfer = TRUE, !.transfer = a]
    BY <1>2, <2>3, <2>4, <2>5, <2>7, <2>9, <2>10, <2>11, Zenon DEF transferRead
  <2>13. /\ t \in QueueType
         /\ t.wait = y /\ t.transfer = a /\ t.transferPending /\ t.dma
         /\ t.counter = q.counter + 1
         /\ t.beginTransfer /\ t.insertPending = q.insertPending
         /\ t.insertDone = q.insertDone
         /\ t.submitCompletion = q.submitCompletion
    <3>1. PICK k : k = q.counter + 1
      OBVIOUS
    <3>2. k \in Nat
      BY <2>1, <3>1
    <3> QED BY <2>1, <2>9, <2>10, <2>11, <2>12, <3>1, <3>2, Zenon DEF QueueType
  <2>14. ReadKept(q, t)
    BY <2>11, <2>13 DEF ReadKept, FrontKept
  <2>15. Len(q.transfer) \in Nat /\ (q.transfer # <<>> => Len(q.transfer) > 0)
    BY <2>1
  <2>16. /\ Halfway(t) = Halfway(q)
         /\ InsertedRead(q, 1) => Transferred(t, 1)
         /\ InsertedRead(t, 1) <=> InsertedRead(q, 1)
    BY <2>1, <2>2, <2>8, <2>11, <2>13, AddedHalves DEF ReadInv
  <2>17. Numbered(t)
    <3>1. \A i \in 1 .. Len(t.transfer) :
            i \in 1 .. Len(q.transfer) \/ i = Len(q.transfer) + 1
      BY <2>11, <2>13, <2>15
    <3>2. \A i \in 1 .. Len(q.transfer) : t.transfer[i] = q.transfer[i]
      BY <2>11, <2>13
    <3>3. t.transfer[Len(q.transfer) + 1].id = q.counter
      BY <2>8, <2>11, <2>13
    <3>4. Len(t.transfer) = Len(q.transfer) + 1
      BY <2>11, <2>13
    <3>5. \A i \in 1 .. Len(q.transfer) :
            q.transfer[i].id = q.counter - Len(q.transfer) + i - 1
      BY DEF ReadInv, Numbered
    <3>6. ASSUME NEW i \in 1 .. Len(t.transfer)
          PROVE  t.transfer[i].id = t.counter - Len(t.transfer) + i - 1
      <4>1. PICK n, k : n = Len(q.transfer) /\ k = q.counter
        BY Zenon
      <4>2. n \in Nat /\ k \in Nat /\ i \in Int
            /\ Len(t.transfer) = n + 1 /\ t.counter = k + 1
        BY <2>1, <2>13, <2>15, <3>4, <4>1
      <4>3. CASE i \in 1 .. n
        <5>1. t.transfer[i].id = k - n + i - 1
          BY <3>2, <3>5, <4>1, <4>3
        <5> QED BY ONLY <4>2, <5>1
      <4>4. CASE i = n + 1
        <5>1. t.transfer[i].id = k
          BY <3>3, <4>1, <4>4
        <5> QED BY ONLY <4>2, <4>4, <5>1
      <4> QED BY <3>1, <4>1, <4>3, <4>4
    <3> QED BY <3>6 DEF Numbered
  <2>18. ReadInv(t, done)
    <3>1. BeginHasPiece(t, t.insertPending)
      BY <2>1, <2>11, <2>13, <2>15 DEF BeginHasPiece, ReadInv
    <3>2. HeadFits(t) /\ t.transfer # <<>>
          /\ t.wait[1] = t.transfer[Len(t.transfer)]
      BY <2>4, <2>5, <2>8, <2>9, <2>11, <2>13 DEF HeadFits
    <3> QED BY <2>13, <2>16, <2>17, <3>1, <3>2 DEF ReadInv
  <2>19. Unanswered(t, t.transferPending) = Unanswered(q, q.transferPending)
    <3>1. Unanswered(q, q.transferPending) = Answers(q.transfer) \o Answers(q.wait)
      BY <2>1, <2>2, QueueFields, UnansweredLemma, Zenon DEF Waiting
    <3>2. Answers(y) = Answers(w)
      BY <2>4, <2>5, <2>8, <2>9, AnswersHead, Zenon
    <3>3. Answers(q.transfer) \o Answers(q.wait) = Answers(q.transfer \o y)
      <4>1. q.transfer \in Seq(PieceType) /\ y \in Seq(PieceType)
        BY <2>1, <2>9
      <4>2. Answers(q.transfer \o y) = Answers(q.transfer) \o Answers(y)
        BY ONLY <4>1, AnswersConcat, Zenon
      <4> QED BY <2>4, <3>2, <4>2
    <3>4. a \o u = q.transfer \o y
      <4>1. Append(q.transfer, y[1]) \o Tail(y) = q.transfer \o y
        <5>1. PICK r : r = q.transfer
          OBVIOUS
        <5>2. r \in Seq(PieceType) /\ y \in Seq(PieceType) /\ y # <<>>
          BY <2>1, <2>9, <5>1
        <5>3. Append(r, y[1]) \o Tail(y) = r \o y
          BY ONLY <5>2, HeadAndTail
        <5> QED BY <5>1, <5>3, Zenon
      <4> QED BY <2>9, <2>11, <4>1, Zenon
    <3>5. Unanswered(t, t.transferPending) = Answers(a \o u)
      BY <2>9, <2>13, Zenon DEF Unanswered, Waiting
    <3> QED BY <3>1, <3>3, <3>4, <3>5
  <2> QED BY <2>14, <2>18, <2>19
<1> QED BY <1>1, <1>2

LEMMA DmaReadLemma ==
  ASSUME NEW q, NEW done, ReadInv(q, done), NEW r \in Nat, NEW size \in Int,
         NEW t, t = dmaRead(q, r, size)
  PROVE  /\ ReadInv(t, done) /\ ReadKept(q, t)
         /\ \/ Unanswered(t, t.transferPending)
                 = Unanswered(q, q.transferPending)
            \/ Unanswered(t, t.transferPending)
                 = Append(Unanswered(q, q.transferPending), r)
<1>1. CASE size = 0
  BY <1>1 DEF dmaRead, ReadKept, FrontKept
<1>2. CASE size # 0
  <2>1. PICK p : p = FIFOEntry(r, size)
    OBVIOUS
  <2>2. p \in PieceType /\ p.last /\ p.req = r
    BY <2>1 DEF PieceType, FIFOEntry
  <2>3. PICK u : u = [q EXCEPT !.wait = Append(@, p)]
    BY Zenon
  <2>4. q \in QueueType /\ q.transferPending \in BOOLEAN
        /\ (q.transferPending => q.wait # <<>>)
    BY ReadFields
  <2>5. /\ u \in QueueType /\ u.wait # <<>>
        /\ q.wait # <<>> => u.wait[1] = q.wait[1]
        /\ Unanswered(u, q.transferPending)
             = Append(Unanswered(q, q.transferPending), r)
    <3>1. PICK b : b = q.transferPending
      OBVIOUS
    <3>2. b \in BOOLEAN /\ (b => q.wait # <<>>) /\ q \in QueueType
      BY <2>4, <3>1
    <3>3. /\ u \in QueueType /\ u.wait # <<>>
          /\ q.wait # <<>> => u.wait[1] = q.wait[1]
          /\ Unanswered(u, b) = Append(Unanswered(q, b), p.req)
      BY <2>2, <2>3, <3>2, AppendedPiece, Zenon
    <3> QED BY <2>2, <3>1, <3>3
  <2>6. /\ u.insertPending = q.insertPending /\ u.insertDone = q.insertDone
        /\ u.transferPending = q.transferPending /\ u.dma = q.dma
        /\ u.submitCompletion = q.submitCompletion /\ u.counter = q.counter
        /\ u.beginTransfer = q.beginTransfer /\ u.transfer = q.transfer
    BY <2>3, <2>4 DEF QueueType
  <2>7. /\ Halfway(u) = Halfway(q)
        /\ Transferred(u, 1) <=> Transferred(q, 1)
        /\ InsertedRead(u, 1) <=> InsertedRead(q, 1)
    BY <2>6, SameHalves
  <2>8. Numbered(u)
    BY <2>6 DEF ReadInv, Numbered
  <2>9. ReadInv(u, done)
    BY <2>5, <2>6, <2>7, <2>8 DEF ReadInv, HeadFits, BeginHasPiece
  <2>10. t = transferRead(u)
    BY <1>2, <2>1, <2>3 DEF dmaRead
  <2>11. /\ ReadInv(t, done) /\ ReadKept(u, t)
         /\ Unanswered(t, t.transferPending) = Unanswered(u, u.transferPending)
    BY <2>9, <2>10, TransferReadLemma
  <2> QED BY <2>5, <2>6, <2>11 DEF ReadKept, FrontKept
<1> QED BY <1>1, <1>2

(***************************************************************************)
(* The events of the read queue.                                           *)
(***************************************************************************)
LEMMA InsertReadLemma ==
  ASSUME NEW q, NEW done, ReadInv(q, done), q.transfer # <<>>,
         ~q.beginTransfer, NEW t, t = insertRead(q)
  PROVE  /\ ReadInv(t, done)
         /\ Unanswered(t, t.transferPending) = Unanswered(q, q.transferPending)
<1>1. CASE q.insertPending
  BY <1>1 DEF insertRead
<1>2. CASE ~q.insertPending
  <2>1. q \in QueueType
    BY ReadFields
  <2>2. t = [q EXCEPT !.insertPending = TRUE, !.insertDone = TRUE]
    BY <1>2 DEF insertRead
  <2>3. /\ t \in QueueType /\ t.wait = q.wait /\ t.transfer = q.transfer
        /\ t.transferPending = q.transferPending /\ t.dma = q.dma
        /\ t.beginTransfer = q.beginTransfer /\ t.counter = q.counter
        /\ t.submitCompletion = q.submitCompletion
        /\ t.insertPending /\ t.insertDone
    BY <2>1, <2>2, Zenon DEF QueueType
  <2>4. /\ Halfway(t) = Halfway(q)
        /\ Transferred(t, 1) <=> Transferred(q, 1)
        /\ InsertedRead(t, 1) <=> InsertedRead(q, 1)
    BY <1>2, <2>3, SameHalves
  <2>5. ReadInv(t, done)
    BY <1>2, <2>3, <2>4 DEF ReadInv, HeadFits, BeginHasPiece, Numbered
  <2> QED BY <2>3, <2>5 DEF Unanswered, Waiting
<1> QED BY <1>1, <1>2

LEMMA BeginInsertReadLemma ==
  ASSUME NEW q, NEW done, ReadInv(q, done), q.beginTransfer,
         NEW t, t = insertRead([q EXCEPT !.beginTransfer = FALSE])
  PROVE  /\ ReadInv(t, done)
         /\ Unanswered(t, t.transferPending) = Unanswered(q, q.transferPending)
<1>1. PICK u : u = [q EXCEPT !.beginTransfer = FALSE]
  OBVIOUS
<1>2. q \in QueueType /\ q.transfer \in Seq(PieceType)
  BY ReadFields
<1>3. q.transfer # <<>>
  BY <1>2 DEF ReadInv, BeginHasPiece
<1>4. /\ u \in QueueType /\ u.wait = q.wait /\ u.transfer = q.transfer
      /\ u.insertPending = q.insertPending /\ u.insertDone = q.insertDone
      /\ ~u.beginTransfer /\ u.transferPending = q.transferPending
      /\ u.dma = q.dma /\ u.submitCompletion = q.submitCompletion
      /\ u.counter = q.counter
  BY <1>1, <1>2, Zenon DEF QueueType
<1>5. /\ Halfway(u) = Halfway(q)
      /\ Transferred(u, 1) <=> Transferred(q, 1)
      /\ InsertedRead(u, 1) <=> InsertedRead(q, 1)
  BY <1>4, SameHalves
<1>6. ReadInv(u, done)
  BY <1>4, <1>5 DEF ReadInv, HeadFits, BeginHasPiece, Numbered
<1>7. Unanswered(u, u.transferPending) = Unanswered(q, q.transferPending)
  BY <1>4 DEF Unanswered, Waiting
<1> QED BY <1>1, <1>3, <1>4, <1>6, <1>7, InsertReadLemma, Zenon

(***************************************************************************)
(* One half of piece m ends: it is noted, or, when the other half has      *)
(* ended before, not any more.                                             *)
(***************************************************************************)
HalfDone(q, i) == ~(Transferred(q, i) <=> InsertedRead(q, i))

LEMMA IdsDiffer ==
  ASSUME NEW q \in QueueType, Numbered(q),
         NEW i \in 1 .. Len(q.transfer), NEW m \in 1 .. Len(q.transfer),
         q.transfer[i].id = q.transfer[m].id
  PROVE  i = m
<1>1. PICK n, k : n = Len(q.transfer) /\ k = q.counter
  OBVIOUS
<1>2. n \in Nat /\ k \in Nat /\ i \in 1 .. n /\ m \in 1 .. n
  BY <1>1, QueueFields
<1>3. k - n + i - 1 = k - n + m - 1
  BY <1>1, Zenon DEF Numbered
<1> QED BY <1>2, <1>3

LEMMA HalfNoted ==
  ASSUME NEW q \in QueueType, Numbered(q), NEW m \in 1 .. Len(q.transfer)
  PROVE  q.transfer[m].id \in Halfway(q) <=> HalfDone(q, m)
BY IdsDiffer DEF Halfway, HalfDone

LEMMA HalfEnds ==
  ASSUME NEW q \in QueueType, NEW t, Numbered(q), t.transfer = q.transfer,
         NEW m \in 1 .. Len(q.transfer),
         HalfDone(t, m) <=> ~HalfDone(q, m),
         \A j \in 1 .. Len(q.transfer) :
           j # m => (HalfDone(t, j) <=> HalfDone(q, j))
  PROVE  /\ q.transfer[m].id \in Halfway(q) <=> HalfDone(q, m)
         /\ Halfway(t) = IF q.transfer[m].id \notin Halfway(q)
                         THEN Halfway(q) \union {q.transfer[m].id}
                         ELSE Halfway(q) \ {q.transfer[m].id}
<1> DEFINE n == Len(q.transfer)
           id(i) == q.transfer[i].id
<1>1. \A i \in 1 .. n : id(i) = id(m) => i = m
  BY IdsDiffer
<1>2. /\ \A x : x \in Halfway(q) <=> \E i \in 1 .. n : HalfDone(q, i) /\ x = id(i)
      /\ \A x : x \in Halfway(t) <=> \E i \in 1 .. n : HalfDone(t, i) /\ x = id(i)
  BY DEF Halfway, HalfDone
<1>3. id(m) \in Halfway(q) <=> HalfDone(q, m)
  BY HalfNoted
<1> HIDE DEF id
<1>4. \A x : x \in Halfway(t) <=> (x # id(m) /\ x \in Halfway(q))
                                  \/ (x = id(m) /\ HalfDone(t, m))
  BY <1>1, <1>2
<1>5. Halfway(t) = IF id(m) \notin Halfway(q) THEN Halfway(q) \union {id(m)}
                   ELSE Halfway(q) \ {id(m)}
  BY <1>3, <1>4
<1> QED BY <1>3, <1>5 DEF id

ReadTransferred(q, first) ==
  [q EXCEPT !.dma = FALSE, !.transferPending = FALSE,
            !.submitCompletion = @ \/ ~first, !.wait = Tail(@)]

LEMMA TransferReadDoneLemma ==
  ASSUME NEW q, NEW done, ReadInv(q, done), q.dma,
         NEW first, first = (Head(q.wait).id \notin done),
         NEW t, t = transferRead(ReadTransferred(q, first))
  PROVE  /\ ReadInv(t, IF first THEN done \union {Head(q.wait).id}
                       ELSE done \ {Head(q.wait).id})
         /\ Unanswered(t, t.transferPending) = Unanswered(q, q.transferPending)
<1>1. q \in QueueType /\ q.transferPending /\ q.wait \in Seq(PieceType)
      /\ q.wait # <<>> /\ q.transfer \in Seq(PieceType) /\ q.transfer # <<>>
      /\ Head(q.wait) = q.transfer[Len(q.transfer)]
  <2>1. q \in QueueType /\ q.wait \in Seq(PieceType)
        /\ q.transfer \in Seq(PieceType)
    BY ReadFields
  <2>2. q.transferPending /\ q.wait # <<>> /\ q.transfer # <<>>
        /\ q.wait[1] = q.transfer[Len(q.transfer)]
    BY DEF ReadInv, HeadFits
  <2> QED BY <2>1, <2>2, HeadAndTail
<1>2. PICK n, p : n = Len(q.transfer) /\ p = q.transfer[n]
  BY Zenon
<1>3. n \in Nat /\ n >= 1
  BY <1>1, <1>2
<1>4. PICK u : u = ReadTransferred(q, first)
  OBVIOUS
<1>5. Tail(q.wait) \in Seq(PieceType)
  BY <1>1, HeadAndTail
<1>6. PICK c : c = (q.submitCompletion \/ ~first) /\ c \in BOOLEAN
  BY Zenon
<1>7. /\ u \in QueueType /\ u.wait = Tail(q.wait) /\ u.transfer = q.transfer
      /\ u.insertPending = q.insertPending /\ u.insertDone = q.insertDone
      /\ u.beginTransfer = q.beginTransfer /\ ~u.transferPending /\ ~u.dma
      /\ u.submitCompletion = c /\ u.counter = q.counter
  BY <1>1, <1>4, <1>5, <1>6, Zenon DEF QueueType, ReadTransferred
<1>8. /\ \A j \in 1 .. n : j # n => (HalfDone(u, j) <=> HalfDone(q, j))
      /\ HalfDone(u, n) <=> ~HalfDone(q, n)
      /\ HalfDone(q, n) <=> InsertedRead(q, n)
      /\ \A j \in 1 .. n : InsertedRead(u, j) <=> InsertedRead(q, j)
      /\ Transferred(u, 1)
  BY <1>1, <1>2, <1>3, <1>7 DEF HalfDone, Transferred, InsertedRead
<1>9. done = Halfway(q) /\ Numbered(q)
  BY DEF ReadInv
<1>10. /\ p.id \in done <=> HalfDone(q, n)
       /\ Halfway(u) = IF first THEN done \union {p.id} ELSE done \ {p.id}
  <2>1. n \in 1 .. Len(q.transfer)
    BY <1>2, <1>3
  <2>2. Numbered(q) /\ u.transfer = q.transfer
        /\ (HalfDone(u, n) <=> ~HalfDone(q, n))
        /\ \A j \in 1 .. Len(q.transfer) :
             j # n => (HalfDone(u, j) <=> HalfDone(q, j))
    BY <1>2, <1>7, <1>8, <1>9
  <2>3. q \in QueueType
    BY <1>1
  <2>4. /\ q.transfer[n].id \in Halfway(q) <=> HalfDone(q, n)
        /\ Halfway(u) = IF q.transfer[n].id \notin Halfway(q)
                        THEN Halfway(q) \union {q.transfer[n].id}
                        ELSE Halfway(q) \ {q.transfer[n].id}
    BY ONLY <2>1, <2>2, <2>3, HalfEnds
  <2> QED BY <1>1, <1>2, <1>9, <2>4, Zenon
<1>11. u.submitCompletion => InsertedRead(u, 1)
  <2>1. CASE q.submitCompletion
    BY <1>3, <1>8, <2>1 DEF ReadInv
  <2>2. CASE ~first
    <3>1. InsertedRead(q, n)
      BY <1>1, <1>2, <1>8, <1>10, <2>2, Zenon
    <3> QED BY <1>3, <1>8, <3>1 DEF InsertedRead
  <2> QED BY <1>6, <1>7, <2>1, <2>2, Zenon
<1>12. ReadInv(u, Halfway(u))
  <2>1. Numbered(u) /\ BeginHasPiece(u, u.insertPending)
    BY <1>7, <1>9 DEF ReadInv, Numbered, BeginHasPiece
  <2> QED BY <1>7, <1>8, <1>11, <2>1 DEF ReadInv
<1>13. Unanswered(u, u.transferPending) = Unanswered(q, q.transferPending)
  BY <1>1, <1>7 DEF Unanswered, Waiting
<1>14. t = transferRead(u)
  BY <1>4
<1>15. ReadInv(t, Halfway(u))
       /\ Unanswered(t, t.transferPending) = Unanswered(u, u.transferPending)
  BY <1>12, <1>14, TransferReadLemma
<1> QED BY <1>1, <1>2, <1>10, <1>13, <1>15, Zenon

ReadInserted(q, first) ==
  [q EXCEPT !.insertDone = FALSE, !.submitCompletion = @ \/ ~first]

LEMMA InsertReadDoneLemma ==
  ASSUME NEW q, NEW done, ReadInv(q, done), q.insertDone,
         NEW first, first = (Head(q.transfer).id \notin done),
         NEW t, t = ReadInserted(q, first)
  PROVE  /\ ReadInv(t, IF first THEN done \union {Head(q.transfer).id}
                       ELSE done \ {Head(q.transfer).id})
         /\ Unanswered(t, t.transferPending) = Unanswered(q, q.transferPending)
<1>1. q \in QueueType /\ q.transfer \in Seq(PieceType) /\ q.transfer # <<>>
      /\ q.insertPending /\ Head(q.transfer) = q.transfer[1]
  <2>1. q \in QueueType /\ q.transfer \in Seq(PieceType)
    BY ReadFields
  <2>2. q.insertPending /\ q.transfer # <<>>
    BY DEF ReadInv
  <2> QED BY <2>1, <2>2, HeadAndTail
<1>2. PICK n, p : n = Len(q.transfer) /\ p = q.transfer[1]
  BY Zenon
<1>3. n \in Nat /\ n >= 1
  BY <1>1, <1>2
<1>4. PICK c : c = (q.submitCompletion \/ ~first) /\ c \in BOOLEAN
  BY Zenon
<1>5. /\ t \in QueueType /\ t.wait = q.wait /\ t.transfer = q.transfer
      /\ t.insertPending /\ ~t.insertDone
      /\ t.beginTransfer = q.beginTransfer /\ t.dma = q.dma
      /\ t.transferPending = q.transferPending
      /\ t.submitCompletion = c /\ t.counter = q.counter
  BY <1>1, <1>4, Zenon DEF QueueType, ReadInserted
<1>6. /\ \A j \in 1 .. n : j # 1 => (HalfDone(t, j) <=> HalfDone(q, j))
      /\ HalfDone(t, 1) <=> ~HalfDone(q, 1)
      /\ HalfDone(q, 1) <=> Transferred(q, 1)
      /\ Transferred(t, 1) <=> Transferred(q, 1)
      /\ InsertedRead(t, 1) /\ ~InsertedRead(q, 1)
  BY <1>1, <1>2, <1>3, <1>5 DEF HalfDone, Transferred, InsertedRead
<1>7. done = Halfway(q) /\ Numbered(q)
  BY DEF ReadInv
<1>8. /\ p.id \in done <=> HalfDone(q, 1)
      /\ Halfway(t) = IF first THEN done \union {p.id} ELSE done \ {p.id}
  <2>1. 1 \in 1 .. Len(q.transfer)
    BY <1>2, <1>3
  <2>2. Numbered(q) /\ t.transfer = q.transfer
        /\ (HalfDone(t, 1) <=> ~HalfDone(q, 1))
        /\ \A j \in 1 .. Len(q.transfer) :
             j # 1 => (HalfDone(t, j) <=> HalfDone(q, j))
    BY <1>2, <1>5, <1>6, <1>7
  <2>3. q \in QueueType
    BY <1>1
  <2>4. /\ q.transfer[1].id \in Halfway(q) <=> HalfDone(q, 1)
        /\ Halfway(t) = IF q.transfer[1].id \notin Halfway(q)
                        THEN Halfway(q) \union {q.transfer[1].id}
                        ELSE Halfway(q) \ {q.transfer[1].id}
    BY ONLY <2>1, <2>2, <2>3, HalfEnds
  <2> QED BY <1>1, <1>2, <1>7, <2>4, Zenon
<1>9. t.submitCompletion => Transferred(t, 1)
  BY <1>1, <1>2, <1>4, <1>5, <1>6, <1>8, Zenon DEF ReadInv
<1>10. ReadInv(t, Halfway(t))
  <2>1. Numbered(t)
    BY <1>5, <1>7 DEF Numbered
  <2>2. BeginHasPiece(t, t.insertPending)
    BY <1>1, <1>5 DEF ReadInv, BeginHasPiece
  <2> QED BY <1>1, <1>5, <1>6, <1>9, <2>1, <2>2 DEF ReadInv, HeadFits
<1>11. Unanswered(t, t.transferPending) = Unanswered(q, q.transferPending)
  BY <1>5 DEF Unanswered, Waiting
<1> QED BY <1>1, <1>2, <1>8, <1>10, <1>11

(***************************************************************************)
(* A piece with both halves behind it leaves the buffer.                   *)
(***************************************************************************)
LEMMA PoppedHalves ==
  ASSUME NEW q \in QueueType, NEW t \in QueueType,
         q.transfer # <<>>, InsertedRead(q, 1), Transferred(q, 1),
         t.transfer = Tail(q.transfer), t.transferPending = q.transferPending,
         ~t.insertPending, Numbered(q), t.counter = q.counter
  PROVE  /\ Numbered(t) /\ Halfway(t) = Halfway(q)
         /\ Len(t.transfer) = Len(q.transfer) - 1 /\ Len(q.transfer) \in Nat
         /\ q.transferPending => /\ t.transfer # <<>>
                                 /\ t.transfer[Len(t.transfer)]
                                      = q.transfer[Len(q.transfer)]
<1>1. PICK a, b, n : a = q.transfer /\ b = t.transfer /\ n = Len(a)
  BY Zenon
<1>2. a \in Seq(PieceType) /\ a # <<>> /\ b = Tail(a) /\ n = Len(a)
  BY <1>1, QueueFields
<1>3. n \in Nat /\ n >= 1 /\ Len(b) = n - 1
      /\ \A i \in 1 .. n - 1 : b[i] = a[i + 1]
  BY ONLY <1>2
<1>4. PICK k : k = q.counter /\ k \in Nat
  BY QueueFields
<1>5. Numbered(t)
  <2>1. \A i \in 1 .. n : a[i].id = k - n + i - 1
    BY <1>1, <1>4 DEF Numbered
  <2>2. \A i \in 1 .. n - 1 : b[i].id = k - (n - 1) + i - 1
    <3>1. ASSUME NEW i \in 1 .. n - 1 PROVE b[i].id = k - (n - 1) + i - 1
      <4>1. i + 1 \in 1 .. n /\ i \in Int
        BY <1>3
      <4>2. b[i].id = k - n + (i + 1) - 1
        BY <1>3, <2>1, <4>1, Zenon
      <4> QED BY ONLY <1>3, <1>4, <4>1, <4>2
    <3> QED BY <3>1
  <2> QED BY <1>1, <1>3, <1>4, <2>2 DEF Numbered
<1>6. \A i \in 1 .. n - 1 : HalfDone(t, i) <=> HalfDone(q, i + 1)
  <2>1. ASSUME NEW i \in 1 .. n - 1
        PROVE  HalfDone(t, i) <=> HalfDone(q, i + 1)
    <3>1. i \in Int /\ i + 1 # 1 /\ (i < n - 1 <=> i + 1 < n)
      BY <1>3
    <3>2. Transferred(t, i) <=> Transferred(q, i + 1)
      BY <1>1, <1>3, <3>1 DEF Transferred
    <3>3. ~InsertedRead(t, i) /\ ~InsertedRead(q, i + 1)
      BY <3>1 DEF InsertedRead
    <3> QED BY <3>2, <3>3 DEF HalfDone
  <2> QED BY <2>1
<1>7. ~HalfDone(q, 1)
  BY DEF HalfDone
<1>8. Halfway(t) = Halfway(q)
  <2>1. \A x : x \in Halfway(q) <=> \E i \in 1 .. n : HalfDone(q, i) /\ x = a[i].id
    BY <1>1 DEF Halfway, HalfDone
  <2>2. \A x : x \in Halfway(t)
                 <=> \E i \in 1 .. n - 1 : HalfDone(t, i) /\ x = b[i].id
    BY <1>1, <1>3 DEF Halfway, HalfDone
  <2>3. ASSUME NEW x \in Halfway(q) PROVE x \in Halfway(t)
    <3>1. PICK i \in 1 .. n : HalfDone(q, i) /\ x = a[i].id
      BY <2>1
    <3>2. i # 1
      BY <1>7, <3>1
    <3>3. PICK j : j = i - 1
      OBVIOUS
    <3>4. j \in 1 .. n - 1 /\ i = j + 1
      BY <1>3, <3>2, <3>3
    <3> QED BY <1>3, <1>6, <2>2, <3>1, <3>4, Zenon
  <2>4. ASSUME NEW x \in Halfway(t) PROVE x \in Halfway(q)
    <3>1. PICK i \in 1 .. n - 1 : HalfDone(t, i) /\ x = b[i].id
      BY <2>2
    <3>2. i + 1 \in 1 .. n
      BY <1>3
    <3> QED BY <1>3, <1>6, <2>1, <3>1, <3>2
  <2> QED BY <2>3, <2>4, Zenon
<1>9. q.transferPending => t.transfer # <<>>
                           /\ t.transfer[Len(t.transfer)] = q.transfer[Len(q.transfer)]
  <2>1. SUFFICES ASSUME q.transferPending
                 PROVE  b # <<>> /\ b[n - 1] = a[n]
    BY <1>1, <1>3
  <2>2. 1 < n
    BY <1>1, <2>1 DEF Transferred
  <2>3. n - 1 \in 1 .. n - 1 /\ (n - 1) + 1 = n
    BY <1>3, <2>2
  <2>4. b[n - 1] = a[n]
    BY <1>3, <2>3
  <2>5. b # <<>>
    BY <1>3, <2>2
  <2> QED BY <2>4, <2>5
<1> QED BY <1>1, <1>3, <1>5, <1>8, <1>9

LEMMA ReadFinishedLemma ==
  ASSUME NEW q, NEW done, ReadInv(q, done), q.transfer # <<>>,
         InsertedRead(q, 1), Transferred(q, 1), ~q.submitCompletion,
         NEW t, t = insertReadDoneNext(q)
  PROVE  /\ ReadInv(t, done)
         /\ q.transfer[1] \in PieceType
         /\ Unanswered(t, t.transferPending) \in Seq(Nat)
         /\ Unanswered(q, q.transferPending) =
              IF q.transfer[1].last
              THEN <<q.transfer[1].req>> \o Unanswered(t, t.transferPending)
              ELSE Unanswered(t, t.transferPending)
<1>1. q \in QueueType /\ q.transfer \in Seq(PieceType)
      /\ q.transferPending \in BOOLEAN /\ (q.transferPending => q.wait # <<>>)
      /\ q.usage \in Int
  BY ReadFields
<1>2. PICK x : x = q.usage - calcSize(Head(q.transfer).size) /\ x \in Int
  <2>1. q.usage - calcSize(Head(q.transfer).size) \in Int
    <3>1. Head(q.transfer) \in PieceType
      BY <1>1, HeadAndTail
    <3>2. calcSize(Head(q.transfer).size) \in Int
      BY <3>1, PieceFields, CalcSizeType
    <3> QED BY <1>1, <3>2
  <2> QED BY <2>1
<1>3. PICK u : u = [q EXCEPT !.usage = x, !.insertPending = FALSE,
                             !.transfer = Tail(@)]
  OBVIOUS
<1>4. Tail(q.transfer) \in Seq(PieceType)
  BY <1>1, HeadAndTail
<1>5. /\ u \in QueueType /\ u.wait = q.wait /\ u.transfer = Tail(q.transfer)
      /\ ~u.insertPending /\ u.insertDone = q.insertDone
      /\ u.beginTransfer = q.beginTransfer
      /\ u.transferPending = q.transferPending /\ u.dma = q.dma
      /\ ~u.submitCompletion /\ u.counter = q.counter
  BY <1>1, <1>2, <1>3, <1>4, Zenon DEF QueueType
<1>6. q.insertPending /\ ~q.insertDone /\ Numbered(q) /\ done = Halfway(q)
  BY DEF ReadInv, InsertedRead
<1>7. /\ Numbered(u) /\ Halfway(u) = Halfway(q)
      /\ Len(u.transfer) = Len(q.transfer) - 1 /\ Len(q.transfer) \in Nat
      /\ q.transferPending => /\ u.transfer # <<>>
                              /\ u.transfer[Len(u.transfer)]
                                   = q.transfer[Len(q.transfer)]
  BY <1>1, <1>5, <1>6, PoppedHalves, Zenon
<1>8. ReadInv(u, done)
  <2>1. BeginHasPiece(u, u.insertPending)
    BY <1>5, <1>6, <1>7 DEF ReadInv, BeginHasPiece
  <2> QED BY <1>5, <1>6, <1>7, <2>1 DEF ReadInv, HeadFits
<1>9. /\ q.transfer[1] \in PieceType
      /\ Unanswered(u, q.transferPending) \in Seq(Nat)
      /\ Unanswered(q, q.transferPending) =
           IF q.transfer[1].last
           THEN <<q.transfer[1].req>> \o Unanswered(u, q.transferPending)
           ELSE Unanswered(u, q.transferPending)
  BY <1>1, <1>5, FirstFinished, Zenon
<1>10. PICK v : v = IF u.transfer # <<>> /\ ~u.beginTransfer THEN insertRead(u)
                    ELSE u
  OBVIOUS
<1>11. ReadInv(v, done)
       /\ Unanswered(v, v.transferPending) = Unanswered(u, u.transferPending)
  <2>1. CASE u.transfer # <<>> /\ ~u.beginTransfer
    BY <1>8, <1>10, <2>1, InsertReadLemma
  <2>2. CASE ~(u.transfer # <<>> /\ ~u.beginTransfer)
    BY <1>8, <1>10, <2>2
  <2> QED BY <2>1, <2>2
<1>12. t = transferRead(v)
  BY <1>2, <1>3, <1>10 DEF insertReadDoneNext
<1>13. ReadInv(t, done)
       /\ Unanswered(t, t.transferPending) = Unanswered(v, v.transferPending)
  BY <1>11, <1>12, TransferReadLemma
<1> QED BY <1>5, <1>9, <1>11, <1>13

-----------------------------------------------------------------------------
(***************************************************************************)
(* Lists: what they are made of is made of chunks.                         *)
(***************************************************************************)
LEMMA MinOfTwo ==
  ASSUME NEW a \in Int, NEW b \in Int
  PROVE  Min({a, b}) \in Int
<1>1. \E x \in {a, b} : \A y \in {a, b} : x <= y
  <2>1. CASE a <= b
    BY <2>1
  <2>2. CASE b <= a
    BY <2>2
  <2> QED BY <2>1, <2>2
<1>2. Min({a, b}) \in {a, b}
  BY <1>1 DEF Min
<1> QED BY <1>2

SegmentType == [pos : Int, size : Int]

LoopType ==
  [segments : Seq(SegmentType), total : Int, current : Int,
   begin : BOOLEAN, stop : BOOLEAN]

LEMMA NextChunkType ==
  ASSUME NEW s \in LoopType, NEW c \in ChunkType,
         NEW offset \in Nat, NEW length \in Nat
  PROVE  NextChunk(s, c, offset, length) \in LoopType
<1>1. /\ s.segments \in Seq(SegmentType) /\ s.total \in Int /\ s.current \in Int
      /\ s.begin \in BOOLEAN /\ s.stop \in BOOLEAN
      /\ c.length \in Nat /\ c.ignore \in BOOLEAN
  BY DEF LoopType, ChunkType
<1>2. PICK from : from = IF s.begin THEN 0 ELSE offset - s.current
  OBVIOUS
<1>3. c.length - from \in Int /\ length - s.total \in Int
  BY <1>1, <1>2
<1>4. PICK size : size = Min({c.length - from, length - s.total})
  OBVIOUS
<1>5. size \in Int
  BY <1>3, <1>4, MinOfTwo
<1>6. PICK g : g = [pos |-> s.total, size |-> size]
  BY Zenon
<1>7. g \in SegmentType
  BY <1>1, <1>5, <1>6 DEF SegmentType
<1>8. PICK u : u = IF c.ignore THEN s.segments ELSE Append(s.segments, g)
  BY Zenon
<1>9. u \in Seq(SegmentType)
  BY <1>1, <1>7, <1>8
<1>10. PICK m, k, b : m = s.total + size /\ k = s.current + c.length
                      /\ b = (s.begin /\ s.total + size = length)
  OBVIOUS
<1>11. m \in Int /\ k \in Int /\ b \in BOOLEAN
  BY <1>1, <1>5, <1>10
<1>12. NextChunk(s, c, offset, length) =
         IF s.stop THEN s
         ELSE IF ~s.begin /\ k <= offset THEN [s EXCEPT !.current = k]
         ELSE [s EXCEPT !.segments = u, !.total = m, !.begin = TRUE, !.stop = b]
  BY <1>2, <1>4, <1>6, <1>8, <1>10 DEF NextChunk
<1>13. [s EXCEPT !.current = k] \in LoopType
  BY <1>11 DEF LoopType
<1>14. [s EXCEPT !.segments = u, !.total = m, !.begin = TRUE, !.stop = b]
         \in LoopType
  BY <1>9, <1>11, Zenon DEF LoopType
<1> QED BY <1>12, <1>13, <1>14

LoopStart == [segments |-> <<>>, total |-> 0, current |-> 0,
              begin |-> FALSE, stop |-> FALSE]

\* The states of the loop over the chunks.
LoopOver(g, chunks, offset, length) ==
  /\ g \in [0 .. Len(chunks) -> LoopType] /\ g[0] = LoopStart
  /\ \A i \in 1 .. Len(chunks) :
       g[i] = NextChunk(g[i - 1], chunks[i], offset, length)

LEMMA SegmentsTrace ==
  ASSUME NEW chunks \in Seq(ChunkType), NEW offset \in Nat, NEW length \in Nat
  PROVE  \E g : /\ LoopOver(g, chunks, offset, length)
               /\ Segments(chunks, offset, length) = g[Len(chunks)].segments
<1> DEFINE n == Len(chunks)
           S == LoopType
           a == LoopStart
           step == [i \in 1 .. n |-> [s \in S |->
                      NextChunk(s, chunks[i], offset, length)]]
           f == CHOOSE f : f = [i \in 0 .. n |->
                  IF i = 0 THEN a
                  ELSE NextChunk(f[i - 1], chunks[i], offset, length)]
<1>1. Segments(chunks, offset, length) = f[n].segments
  BY Zenon DEF Segments, Fold, LoopStart
<1>2. n \in Nat /\ \A i \in 1 .. n : chunks[i] \in ChunkType
  OBVIOUS
<1>3. a \in S
  BY DEF LoopType, LoopStart
<1>4. step \in [1 .. n -> [S -> S]]
  <2>1. \A i \in 1 .. n, s \in S : NextChunk(s, chunks[i], offset, length) \in S
    BY <1>2, NextChunkType, Zenon
  <2> HIDE DEF S, n
  <2> QED BY <2>1
<1> HIDE DEF n, S, a
<1>5. PICK g : IsTrace(g, n, S, a, step)
  <2> HIDE DEF step
  <2> QED BY <1>2, <1>3, <1>4, LoopTrace
<1>6. g \in [0 .. n -> S] /\ g[0] = a
      /\ \A i \in 1 .. n : g[i] = step[i][g[i - 1]]
  BY <1>5 DEF IsTrace
<1>7. \A i \in 1 .. n : g[i - 1] \in S
  BY <1>2, <1>6
<1>8. \A i \in 1 .. n : g[i] = NextChunk(g[i - 1], chunks[i], offset, length)
  BY <1>6, <1>7, Zenon
<1>9. g = [i \in 0 .. n |->
             IF i = 0 THEN a ELSE NextChunk(g[i - 1], chunks[i], offset, length)]
  <2>1. \A i \in 0 .. n : i = 0 \/ i \in 1 .. n
    BY <1>2
  <2> QED BY ONLY <1>6, <1>8, <2>1
<1>10. f = [i \in 0 .. n |->
              IF i = 0 THEN a ELSE NextChunk(f[i - 1], chunks[i], offset, length)]
  BY <1>9, Zenon
<1> HIDE DEF f, step
<1> DEFINE T == {i \in 0 .. n : f[i] = g[i]}
<1>11. 0 \in T
  <2>1. 0 \in 0 .. n
    BY <1>2
  <2> QED BY <1>6, <1>10, <2>1
<1>12. ASSUME NEW i \in 1 .. n, i - 1 \in T
       PROVE  i \in T
  <2>1. i \in 0 .. n /\ i # 0
    BY <1>2
  <2> QED BY <1>8, <1>10, <1>12, <2>1
<1> HIDE DEF T
<1>13. \A i \in 0 .. n : i \in T
  BY <1>2, <1>11, <1>12, UpTo, Zenon
<1>14. n \in 0 .. n
  BY <1>2
<1>15. Segments(chunks, offset, length) = g[n].segments
  BY <1>1, <1>13, <1>14 DEF T
<1>16. LoopOver(g, chunks, offset, length)
  BY <1>6, <1>8 DEF LoopOver, n, S, a
<1> QED BY <1>15, <1>16 DEF n

LEMMA SegmentsType ==
  ASSUME NEW chunks \in Seq(ChunkType), NEW offset \in Nat, NEW length \in Nat
  PROVE  Segments(chunks, offset, length) \in Seq(SegmentType)
<1>1. PICK g : /\ LoopOver(g, chunks, offset, length)
               /\ Segments(chunks, offset, length) = g[Len(chunks)].segments
  BY SegmentsTrace
<1>2. Len(chunks) \in 0 .. Len(chunks)
  OBVIOUS
<1>3. g[Len(chunks)] \in LoopType
  BY <1>1, <1>2 DEF LoopOver
<1> QED BY <1>1, <1>3 DEF LoopType

\* The sizes of the first chunks.
SumsOf(g, chunks) ==
  /\ g \in [0 .. Len(chunks) -> Int] /\ g[0] = 0
  /\ \A i \in 1 .. Len(chunks) : g[i] = g[i - 1] + chunks[i].length

LEMMA SumSizesTrace ==
  ASSUME NEW chunks \in Seq(ChunkType)
  PROVE  \E g : SumsOf(g, chunks) /\ SumSizes(chunks) = g[Len(chunks)]
<1> DEFINE n == Len(chunks)
           step == [i \in 1 .. n |-> [t \in Int |-> t + chunks[i].length]]
           f == CHOOSE f : f = [i \in 0 .. n |->
                  IF i = 0 THEN 0 ELSE f[i - 1] + chunks[i].length]
<1>1. SumSizes(chunks) = f[n]
  BY Zenon DEF SumSizes, Fold
<1>2. n \in Nat /\ \A i \in 1 .. n : chunks[i].length \in Int
  <2>1. \A i \in 1 .. n : chunks[i] \in ChunkType
    OBVIOUS
  <2> QED BY <2>1 DEF ChunkType
<1> HIDE DEF n
<1>3. step \in [1 .. n -> [Int -> Int]]
  BY <1>2
<1>4. PICK g : IsTrace(g, n, Int, 0, step)
  <2>1. PICK S, a : S = Int /\ a = 0
    OBVIOUS
  <2>2. n \in Nat /\ a \in S /\ step \in [1 .. n -> [S -> S]]
    BY <1>2, <1>3, <2>1
  <2> HIDE DEF step
  <2>3. \E g : IsTrace(g, n, S, a, step)
    BY ONLY <2>2, LoopTrace
  <2> QED BY <2>1, <2>3
<1>5. g \in [0 .. n -> Int] /\ g[0] = 0
      /\ \A i \in 1 .. n : g[i] = step[i][g[i - 1]]
  BY <1>4 DEF IsTrace
<1>6. \A i \in 1 .. n : g[i - 1] \in Int
  BY <1>2, <1>5
<1>7. \A i \in 1 .. n : g[i] = g[i - 1] + chunks[i].length
  BY <1>5, <1>6, Zenon
<1>8. g = [i \in 0 .. n |-> IF i = 0 THEN 0 ELSE g[i - 1] + chunks[i].length]
  <2>1. \A i \in 0 .. n : i = 0 \/ i \in 1 .. n
    BY <1>2
  <2> QED BY ONLY <1>5, <1>7, <2>1
<1>9. f = [i \in 0 .. n |-> IF i = 0 THEN 0 ELSE f[i - 1] + chunks[i].length]
  BY <1>8, Zenon
<1> HIDE DEF f, step
<1> DEFINE T == {i \in 0 .. n : f[i] = g[i]}
<1>10. 0 \in T
  <2>1. 0 \in 0 .. n
    BY <1>2
  <2> QED BY <1>5, <1>9, <2>1
<1>11. ASSUME NEW i \in 1 .. n, i - 1 \in T
       PROVE  i \in T
  <2>1. i \in 0 .. n /\ i # 0
    BY <1>2
  <2> QED BY <1>7, <1>9, <1>11, <2>1
<1> HIDE DEF T
<1>12. \A i \in 0 .. n : i \in T
  BY <1>2, <1>10, <1>11, UpTo, Zenon
<1>13. n \in 0 .. n
  BY <1>2
<1>14. SumSizes(chunks) = g[n]
  BY <1>1, <1>12, <1>13 DEF T
<1>15. SumsOf(g, chunks)
  BY <1>5, <1>7 DEF SumsOf, n
<1> QED BY <1>14, <1>15 DEF n

LEMMA SumSizesType ==
  ASSUME NEW chunks \in Seq(ChunkType)
  PROVE  SumSizes(chunks) \in Int
<1>1. PICK g : SumsOf(g, chunks) /\ SumSizes(chunks) = g[Len(chunks)]
  BY SumSizesTrace
<1>2. Len(chunks) \in 0 .. Len(chunks)
  OBVIOUS
<1> QED BY <1>1, <1>2 DEF SumsOf

LEMMA FrontType ==
  ASSUME NEW S, NEW s \in Seq(S)
  PROVE  Front(s) \in Seq(S)
<1>1. CASE s = <<>>
  <2>1. SubSeq(s, 1, Len(s) - 1) = <<>>
    BY <1>1
  <2> QED BY <2>1 DEF Front
<1>2. CASE s # <<>>
  <2>1. Len(s) - 1 \in 0 .. Len(s)
    BY <1>2
  <2>2. SubSeq(s, 1, Len(s) - 1) \in Seq(S)
    BY <2>1
  <2> QED BY <2>2 DEF Front
<1> QED BY <1>1, <1>2

LEMMA CoveringType ==
  ASSUME NEW s \in Seq(ChunkType), NEW size \in Int
  PROVE  Covering(s, size) \in Seq(ChunkType)
<1> DEFINE enough == {k \in 0 .. Len(s) : SumSizes(SubSeq(s, 1, k)) >= size}
<1>1. Len(s) \in Nat /\ enough \subseteq Nat
  OBVIOUS
<1>2. PICK k : k = IF enough = {} THEN Len(s) ELSE Min(enough)
  BY Zenon
<1>3. k \in 0 .. Len(s)
  <2>1. CASE enough = {}
    BY <1>1, <1>2, <2>1
  <2>2. CASE enough # {}
    <3>1. Min(enough) \in enough
      BY <1>1, <2>2, MinLemma, Zenon
    <3> QED BY <1>2, <2>2, <3>1
  <2> QED BY <2>1, <2>2
<1>4. SubSeq(s, 1, k) \in Seq(ChunkType)
  BY <1>3
<1>5. Covering(s, size) = SubSeq(s, 1, k)
  BY <1>2 DEF Covering
<1> QED BY <1>4, <1>5

(***************************************************************************)
(* A command that took another page of its list.                           *)
(***************************************************************************)
LEMMA CommandFields ==
  ASSUME NEW c \in CommandType
  PROVE  /\ c.chunks \in Seq(ChunkType) /\ c.lists \in Seq(Seq(ChunkType))
         /\ c.todo \in Int /\ c.transfer \in TransferType /\ c.counter \in Int
         /\ c.at \in {"parsed", "fetching", "fetched", "moving", "done"}
BY DEF CommandType

LEMMA TransferFields ==
  ASSUME NEW t \in TransferType
  PROVE  /\ t.kind \in {"prp", "cont", "queue", "sgl"} /\ t.total \in Nat
         /\ t.dir \in {"read", "write"} /\ t.offset \in Nat /\ t.length \in Nat
         /\ t.segments \in Seq(Seq(ChunkType))
BY DEF TransferType

LEMMA HeadList ==
  ASSUME NEW c \in CommandType, c.lists # <<>>
  PROVE  Head(c.lists) \in Seq(ChunkType) /\ Tail(c.lists) \in Seq(Seq(ChunkType))
<1>1. PICK S, l : S = Seq(ChunkType) /\ l = c.lists
  OBVIOUS
<1>2. l \in Seq(S) /\ l # <<>>
  BY <1>1, CommandFields
<1> QED BY <1>1, <1>2, HeadAndTail

LEMMA PRPPageTaken ==
  ASSUME NEW c \in CommandType, c.lists # <<>>,
         NEW p, p = getPRPListFromPRP(c)
  PROVE  p \in CommandType
<1>1. PICK s, left : s = Covering(Head(c.lists), c.todo)
                     /\ left = c.todo - SumSizes(s)
  OBVIOUS
<1>2. s \in Seq(ChunkType)
  BY <1>1, HeadList, CommandFields, CoveringType, Zenon
<1>3. left \in Int
  <2>1. SumSizes(s) \in Int
    BY <1>2, SumSizesType
  <2> QED BY <1>1, <2>1, CommandFields
<1>4. PICK x, y, z : x = c.chunks \o Front(s) /\ y = c.chunks \o s
                     /\ z = Tail(c.lists)
  BY Zenon
<1>5. x \in Seq(ChunkType) /\ y \in Seq(ChunkType)
      /\ z \in Seq(Seq(ChunkType)) /\ <<>> \in Seq(Seq(ChunkType))
  <2>1. Front(s) \in Seq(ChunkType) /\ c.chunks \in Seq(ChunkType)
    BY <1>2, FrontType, CommandFields
  <2>2. x \in Seq(ChunkType) /\ y \in Seq(ChunkType)
    BY <1>2, <1>4, <2>1
  <2>3. z \in Seq(Seq(ChunkType)) /\ <<>> \in Seq(Seq(ChunkType))
    BY <1>4, HeadList
  <2> QED BY <2>2, <2>3
<1>6. p = IF left > 0
          THEN [c EXCEPT !.chunks = x, !.lists = z, !.todo = left]
          ELSE [c EXCEPT !.chunks = y, !.lists = <<>>, !.todo = 0]
  BY <1>1, <1>4 DEF getPRPListFromPRP
<1>7. [c EXCEPT !.chunks = x, !.lists = z, !.todo = left] \in CommandType
  BY <1>3, <1>5, Zenon DEF CommandType
<1>8. [c EXCEPT !.chunks = y, !.lists = <<>>, !.todo = 0] \in CommandType
  <2>1. PICK e, o : e = <<>> /\ o = 0
    OBVIOUS
  <2>2. e \in Seq(Seq(ChunkType)) /\ o \in Int
    BY <1>5, <2>1
  <2>3. [c EXCEPT !.chunks = y, !.lists = e, !.todo = o] \in CommandType
    BY <1>5, <2>2, Zenon DEF CommandType
  <2> QED BY <2>1, <2>3
<1> QED BY <1>6, <1>7, <1>8

LEMMA SGLSegmentTaken ==
  ASSUME NEW c \in CommandType, c.lists # <<>>, NEW p, p = parseSGLSegment(c)
  PROVE  p \in CommandType
<1>1. PICK y, z : y = c.chunks \o Head(c.lists) /\ z = Tail(c.lists)
  BY Zenon
<1>2. y \in Seq(ChunkType) /\ z \in Seq(Seq(ChunkType))
  BY <1>1, HeadList, CommandFields
<1>3. p = [c EXCEPT !.chunks = y, !.lists = z]
  BY <1>1 DEF parseSGLSegment
<1> QED BY <1>2, <1>3, Zenon DEF CommandType

(***************************************************************************)
(* The lists of the host, and a new command.                               *)
(***************************************************************************)
LEMMA FunctionIsSeq ==
  ASSUME NEW S, NEW n \in Int, NEW x, n >= 1 => x \in S
  PROVE  [i \in 1 .. n |-> x] \in Seq(S)
<1>1. CASE n >= 0
  <2>1. n \in Nat
    BY <1>1
  <2>2. [i \in 1 .. n |-> x] \in [1 .. n -> S]
    OBVIOUS
  <2> QED BY <2>1, <2>2
<1>2. CASE ~(n >= 0)
  <2>1. 1 .. n = 1 .. 0
    BY <1>2
  <2>2. [i \in 1 .. n |-> x] \in [1 .. 0 -> S]
    BY <2>1
  <2> QED BY <2>2
<1> QED BY <1>1, <1>2

LEMMA PagesType ==
  ASSUME NEW n \in Int
  PROVE  Pages(n) \in Seq(ChunkType)
<1>1. Chunk(PageSize, FALSE) \in ChunkType
  BY DMAListsAssumption DEF Chunk, ChunkType
<1> QED BY <1>1, FunctionIsSeq, Zenon DEF Pages

LEMMA PRPType ==
  ASSUME NEW size \in Int
  PROVE  PRP(size) \in Seq(Seq(ChunkType))
<1>1. PICK full, n : full = ListEntries - 1 /\ n = DIVCEIL(size, PageSize)
  OBVIOUS
<1>2. full \in Nat \ {0} /\ n \in Int
  <2>1. full \in Nat \ {0}
    BY <1>1, DMAListsAssumption
  <2>2. (size + PageSize - 1) \div PageSize \in Int
    BY DMAListsAssumption
  <2> QED BY <1>1, <2>1, <2>2 DEF DIVCEIL
<1>3. PICK k : k = IF n <= ListEntries THEN 0 ELSE DIVCEIL(n - ListEntries, full)
  OBVIOUS
<1>4. k \in Int
  <2>1. (n - ListEntries + full - 1) \div full \in Int
    BY <1>2, DMAListsAssumption
  <2> QED BY <1>3, <2>1 DEF DIVCEIL
<1>5. PICK P, L : P = Append(Pages(full), Pointer) /\ L = Pages(n - k * full)
  BY Zenon
<1>6. P \in Seq(ChunkType) /\ L \in Seq(ChunkType)
  <2>1. n - k * full \in Int /\ full \in Int
    BY <1>2, <1>4
  <2>2. Pages(full) \in Seq(ChunkType) /\ L \in Seq(ChunkType)
    BY <1>5, <2>1, PagesType
  <2>3. Pointer \in ChunkType
    BY DMAListsAssumption DEF Pointer, Chunk, ChunkType
  <2> QED BY <1>5, <2>2, <2>3
<1>7. PICK S : S = Seq(ChunkType)
  OBVIOUS
<1>8. PICK a : a = [i \in 1 .. k |-> P]
  BY Zenon
<1>9. a \in Seq(S)
  BY <1>4, <1>6, <1>7, <1>8, FunctionIsSeq
<1>10. <<L>> \in Seq(S)
  BY <1>6, <1>7
<1>11. a \o <<L>> \in Seq(S)
  BY <1>9, <1>10
<1>12. PRP(size) = a \o <<L>>
  BY <1>1, <1>3, <1>5, <1>8 DEF PRP
<1> QED BY <1>7, <1>11, <1>12

ListType ==
  [chunks : Seq(ChunkType), lists : Seq(Seq(ChunkType)), todo : Int]

LEMMA NewListType ==
  ASSUME NEW t \in TransferType
  PROVE  NewList(t) \in ListType
<1>1. /\ t.kind \in {"prp", "cont", "queue", "sgl"} /\ t.total \in Nat
      /\ t.segments \in Seq(Seq(ChunkType))
  BY TransferFields
<1>2. \A x \in Seq(ChunkType), y \in Seq(Seq(ChunkType)), z \in Int :
        Listed(x, y, z) \in ListType
  BY DEF Listed, ListType
<1>3. \A x \in Seq(ChunkType) : Parsed(x) \in ListType
  <2>1. PICK e, o : e = <<>> /\ o = 0
    OBVIOUS
  <2>2. e \in Seq(Seq(ChunkType)) /\ o \in Int
    BY <2>1
  <2>3. \A x \in Seq(ChunkType) :
          [chunks |-> x, lists |-> e, todo |-> o] \in ListType
    BY <2>2 DEF ListType
  <2> QED BY <2>1, <2>3, Zenon DEF Parsed
<1>4. Chunk(t.total, FALSE) \in ChunkType
  BY <1>1 DEF Chunk, ChunkType
<1>5. <<Chunk(t.total, FALSE)>> \in Seq(ChunkType) /\ <<>> \in Seq(ChunkType)
  <2>1. PICK c : c = Chunk(t.total, FALSE)
    BY Zenon
  <2>2. c \in ChunkType
    BY <1>4, <2>1, Zenon
  <2>3. <<c>> \in Seq(ChunkType)
    BY ONLY <2>2
  <2>4. <<>> \in Seq(ChunkType)
    OBVIOUS
  <2> QED BY <2>1, <2>3, <2>4, Zenon
<1>6. Pages(1) \in Seq(ChunkType) /\ Pages(2) \in Seq(ChunkType)
  BY PagesType
<1>7. t.total - PageSize \in Int /\ t.total \in Int
  BY <1>1, DMAListsAssumption
<1>8. PRP(t.total - PageSize) \in Seq(Seq(ChunkType))
      /\ PRP(t.total) \in Seq(Seq(ChunkType))
  BY <1>7, PRPType, Zenon
<1>9. PRPList(t.total) \in ListType
  BY <1>2, <1>3, <1>5, <1>6, <1>7, <1>8, Zenon DEF PRPList
<1>10. PRPListOfQueue(t.total, TRUE) \in ListType
       /\ PRPListOfQueue(t.total, FALSE) \in ListType
  BY <1>2, <1>3, <1>5, <1>7, <1>8, Zenon DEF PRPListOfQueue
<1>11. SGL(t.segments) \in ListType
  <2>1. CASE Len(t.segments) = 1 /\ Len(t.segments[1]) = 1
    <3>1. t.segments[1] \in Seq(ChunkType)
      BY <1>1, <2>1
    <3> QED BY <1>3, <2>1, <3>1 DEF SGL
  <2>2. CASE ~(Len(t.segments) = 1 /\ Len(t.segments[1]) = 1)
    <3>1. 0 \in Int
      OBVIOUS
    <3>2. Listed(<<>>, t.segments, 0) \in ListType
      BY <1>1, <1>2, <1>5, <3>1, Zenon
    <3> QED BY <2>2, <3>2 DEF SGL
  <2> QED BY <2>1, <2>2
<1> QED BY <1>1, <1>9, <1>10, <1>11, Zenon DEF NewList

LEMMA NewCommand ==
  ASSUME NEW t \in TransferType
  PROVE  Command(t) \in CommandType /\ Command(t).at = "parsed"
<1>1. PICK l : l = NewList(t)
  OBVIOUS
<1>2. l.chunks \in Seq(ChunkType) /\ l.lists \in Seq(Seq(ChunkType))
      /\ l.todo \in Int
  BY <1>1, NewListType DEF ListType
<1>3. PICK o : o = 0 /\ o \in Int
  OBVIOUS
<1>4. Command(t) = [chunks |-> l.chunks, lists |-> l.lists, todo |-> l.todo,
                    transfer |-> t, counter |-> o, at |-> "parsed"]
  BY <1>1, <1>3 DEF Command
<1> QED BY <1>2, <1>3, <1>4 DEF CommandType

-----------------------------------------------------------------------------
(***************************************************************************)
(* What the firmware does in a callback, or on its own, keeps the state in *)
(* order and only adds to what waits for an answer.                        *)
(***************************************************************************)
Longer(a, b) ==
  Len(a) <= Len(b) /\ \A i \in 1 .. Len(a) : b[i] = a[i]

Grows(s, t) ==
  /\ WriteKept(s.write, t.write) /\ ReadKept(s.read, t.read)
  /\ Longer(Reads(s), Reads(t)) /\ Longer(Writes(s), Writes(t))

NoneAsked(s, k, c) == \A i \in k + 1 .. Len(Reads(s)) : ~Asks(s, i, c)

LEMMA StateFields ==
  ASSUME NEW s, NEW k, NEW done, StateInv(s, k, done)
  PROVE  /\ s \in StateType /\ s.write \in QueueType /\ s.read \in QueueType
         /\ s.requests \in Seq(RequestType) /\ s.cmds \in Seq(CommandType)
         /\ Reads(s) \in Seq(Nat) /\ Writes(s) \in Seq(Nat)
         /\ Len(Reads(s)) \in Nat /\ Len(Writes(s)) \in Nat
         /\ Len(s.requests) \in Nat /\ Len(s.cmds) \in Nat
<1>1. /\ s \in StateType /\ s.write \in QueueType /\ s.read \in QueueType
      /\ s.requests \in Seq(RequestType) /\ s.cmds \in Seq(CommandType)
  BY DEF StateInv, StateType
<1>2. Reads(s) \in Seq(Nat)
  <2>1. s.read.transferPending \in BOOLEAN
        /\ (s.read.transferPending => s.read.wait # <<>>)
    BY ReadFields DEF StateInv
  <2> QED BY <1>1, <2>1, UnansweredLemma DEF Reads
<1>3. Writes(s) \in Seq(Nat)
  <2>1. s.write.insertPending \in BOOLEAN
        /\ (s.write.insertPending => s.write.wait # <<>>)
    BY <1>1, QueueFields DEF StateInv, WriteInv, HeadFits
  <2> QED BY <1>1, <2>1, UnansweredLemma DEF Writes
<1> QED BY <1>1, <1>2, <1>3

LEMMA GrowsRefl ==
  ASSUME NEW s, NEW t, s.read = t.read, s.write = t.write
  PROVE  Grows(s, t)
<1>1. Reads(t) = Reads(s) /\ Writes(t) = Writes(s)
  BY DEF Reads, Writes
<1>2. Longer(Reads(s), Reads(t)) /\ Longer(Writes(s), Writes(t))
  BY <1>1 DEF Longer
<1>3. WriteKept(s.write, t.write) /\ ReadKept(s.read, t.read)
  BY DEF WriteKept, ReadKept, FrontKept
<1> QED BY <1>2, <1>3 DEF Grows

LEMMA GrowsTrans ==
  ASSUME NEW k, NEW done, NEW s, NEW t, NEW u,
         StateInv(s, k, done), StateInv(t, k, done), StateInv(u, k, done),
         Grows(s, t), Grows(t, u)
  PROVE  Grows(s, u)
<1>1. /\ Len(Reads(s)) \in Nat /\ Len(Writes(s)) \in Nat
      /\ Len(Reads(t)) \in Nat /\ Len(Writes(t)) \in Nat
      /\ Len(Reads(u)) \in Nat /\ Len(Writes(u)) \in Nat
  BY StateFields
<1>2. ASSUME NEW a, NEW b, NEW c, Longer(a, b), Longer(b, c),
             Len(a) \in Nat, Len(b) \in Nat, Len(c) \in Nat
      PROVE  Longer(a, c)
  BY <1>2 DEF Longer
<1>3. Longer(Reads(s), Reads(u))
  BY <1>1, <1>2 DEF Grows
<1>4. Longer(Writes(s), Writes(u))
  BY <1>1, <1>2 DEF Grows
<1>5. WriteKept(s.write, u.write) /\ ReadKept(s.read, u.read)
  BY DEF Grows, WriteKept, ReadKept, FrontKept
<1> QED BY <1>3, <1>4, <1>5 DEF Grows

(***************************************************************************)
(* A command changes, but for what the FIFO knows of it.                   *)
(***************************************************************************)
LEMMA UpdateKeeps ==
  ASSUME NEW s, NEW k \in {0, 1}, NEW done, StateInv(s, k, done),
         NEW c \in 1 .. Len(s.cmds), NEW x \in CommandType,
         x.at \in {"fetching", "fetched"} => x.lists # <<>>,
         s.cmds[c].at \in {"moving", "done"} => x.at \in {"moving", "done"},
         NoneAsked(s, k, c) \/ x.at = "fetching",
         NEW t, t = Update(s, c, x)
  PROVE  /\ StateInv(t, k, done) /\ Grows(s, t)
         /\ t.read = s.read /\ t.write = s.write /\ t.requests = s.requests
         /\ Len(t.cmds) = Len(s.cmds) /\ t.cmds[c] = x
         /\ \A d \in 1 .. Len(s.cmds) : d # c => t.cmds[d] = s.cmds[d]
<1>1. /\ s \in StateType /\ s.write \in QueueType /\ s.read \in QueueType
      /\ s.requests \in Seq(RequestType) /\ s.cmds \in Seq(CommandType)
      /\ Len(s.cmds) \in Nat /\ Len(s.requests) \in Nat
      /\ Len(Reads(s)) \in Nat
  BY StateFields
<1>2. PICK m : m = [s.cmds EXCEPT ![c] = x]
  BY Zenon
<1>3. /\ m \in Seq(CommandType) /\ Len(m) = Len(s.cmds) /\ m[c] = x
      /\ \A d \in 1 .. Len(s.cmds) : d # c => m[d] = s.cmds[d]
  BY <1>1, <1>2
<1>4. t = [s EXCEPT !.cmds = m]
  BY <1>2 DEF Update
<1>5. /\ t \in StateType /\ t.read = s.read /\ t.write = s.write
      /\ t.requests = s.requests /\ t.cmds = m
  BY <1>1, <1>3, <1>4 DEF StateType
<1>6. Reads(t) = Reads(s) /\ Writes(t) = Writes(s)
  BY <1>5 DEF Reads, Writes
<1>7. RequestsOK(t)
  <2>1. ASSUME NEW i \in 1 .. Len(t.requests)
        PROVE  /\ t.requests[i].cmd \in 1 .. Len(t.cmds)
               /\ t.requests[i].what = "data"
                    => t.cmds[t.requests[i].cmd].at \in {"moving", "done"}
    <3>1. /\ s.requests[i].cmd \in 1 .. Len(s.cmds)
          /\ s.requests[i].what = "data"
               => s.cmds[s.requests[i].cmd].at \in {"moving", "done"}
      BY <1>5 DEF StateInv, RequestsOK
    <3> QED BY <1>3, <1>5, <3>1, Zenon
  <2>2. /\ \A i \in 1 .. Len(Reads(t)) : Reads(t)[i] \in 1 .. Len(t.requests)
        /\ \A i \in 1 .. Len(Writes(t)) :
             /\ Writes(t)[i] \in 1 .. Len(t.requests)
             /\ t.requests[Writes(t)[i]].what = "data"
    BY <1>5, <1>6 DEF StateInv, RequestsOK
  <2> QED BY <2>1, <2>2 DEF RequestsOK
<1>8. ListsThere(t)
  BY <1>3, <1>5 DEF StateInv, ListsThere
<1>9. FetchedOnce(t, k)
  <2>1. \A i, d : Asks(t, i, d) <=> Asks(s, i, d)
    BY <1>5, <1>6 DEF Asks
  <2>2. ASSUME NEW i \in k + 1 .. Len(Reads(t)), NEW d \in 1 .. Len(t.cmds),
               Asks(t, i, d)
        PROVE  /\ t.cmds[d].at = "fetching"
               /\ \A j \in k + 1 .. Len(Reads(t)) : Asks(t, j, d) => i = j
    <3>1. i \in k + 1 .. Len(Reads(s)) /\ d \in 1 .. Len(s.cmds) /\ Asks(s, i, d)
      BY <1>3, <1>5, <1>6, <2>1, <2>2
    <3>2. /\ s.cmds[d].at = "fetching"
          /\ \A j \in k + 1 .. Len(Reads(s)) : Asks(s, j, d) => i = j
      BY <3>1, Zenon DEF StateInv, FetchedOnce
    <3>3. d = c => x.at = "fetching"
      BY <3>1 DEF NoneAsked
    <3> QED BY <1>3, <1>5, <1>6, <2>1, <3>1, <3>2, <3>3
  <2> QED BY <2>2, Zenon DEF FetchedOnce
<1>10. Grows(s, t)
  BY <1>5, GrowsRefl
<1> QED BY <1>3, <1>5, <1>7, <1>8, <1>9, <1>10 DEF StateInv

(***************************************************************************)
(* pInterface->dmaRead and dmaWrite.                                       *)
(***************************************************************************)
LEMMA LongerLemma ==
  ASSUME NEW a \in Seq(Nat), NEW n \in Nat, NEW b, b = a \/ b = Append(a, n)
  PROVE  /\ Longer(a, b) /\ Len(a) \in Nat
         /\ Len(b) = Len(a) \/ (Len(b) = Len(a) + 1 /\ b[Len(a) + 1] = n)
<1>1. CASE b = a
  BY <1>1 DEF Longer
<1>2. CASE b = Append(a, n)
  BY <1>2 DEF Longer
<1> QED BY <1>1, <1>2

LEMMA RequestsExtended ==
  ASSUME NEW s, NEW k \in {0, 1}, NEW done, StateInv(s, k, done),
         NEW req \in RequestType, req.cmd \in 1 .. Len(s.cmds),
         req.what = "data" => s.cmds[req.cmd].at \in {"moving", "done"},
         req.what = "list" => s.cmds[req.cmd].at = "fetching"
                              /\ NoneAsked(s, k, req.cmd),
         NEW t, t \in StateType, t.cmds = s.cmds,
         t.requests = Append(s.requests, req),
         \/ Reads(t) = Reads(s)
         \/ Reads(t) = Append(Reads(s), Len(s.requests) + 1),
         \/ Writes(t) = Writes(s)
         \/ Writes(t) = Append(Writes(s), Len(s.requests) + 1)
            /\ req.what = "data"
  PROVE  /\ RequestsOK(t) /\ ListsThere(t) /\ FetchedOnce(t, k)
         /\ Longer(Reads(s), Reads(t)) /\ Longer(Writes(s), Writes(t))
<1>1. /\ s.requests \in Seq(RequestType) /\ Reads(s) \in Seq(Nat)
      /\ Writes(s) \in Seq(Nat)
  BY StateFields
<1>2. PICK n : n = Len(s.requests)
  BY Zenon
<1>3. /\ n \in Nat /\ Len(t.requests) = n + 1
      /\ t.requests[n + 1] = req
      /\ \A i \in 1 .. n : t.requests[i] = s.requests[i]
  BY <1>1, <1>2
<1>4. n + 1 \in Nat /\ \A i \in 1 .. n + 1 : i \in 1 .. n \/ i = n + 1
  BY <1>3
<1>5. PICK r, w : r = Len(Reads(s)) /\ w = Len(Writes(s))
  BY Zenon
<1>6. /\ Longer(Reads(s), Reads(t)) /\ r \in Nat
      /\ Len(Reads(t)) = r \/ (Len(Reads(t)) = r + 1 /\ Reads(t)[r + 1] = n + 1)
  BY <1>1, <1>2, <1>4, <1>5, LongerLemma
<1>7. /\ Longer(Writes(s), Writes(t)) /\ w \in Nat
      /\ \/ Len(Writes(t)) = w
         \/ Len(Writes(t)) = w + 1 /\ Writes(t)[w + 1] = n + 1
            /\ req.what = "data"
  <2>1. CASE Writes(t) = Writes(s)
    BY <1>1, <1>5, <2>1 DEF Longer
  <2>2. CASE Writes(t) = Append(Writes(s), n + 1) /\ req.what = "data"
    <3>1. /\ Longer(Writes(s), Writes(t)) /\ w \in Nat
          /\ Len(Writes(t)) = w \/ (Len(Writes(t)) = w + 1 /\ Writes(t)[w + 1] = n + 1)
      BY <1>1, <1>4, <1>5, <2>2, LongerLemma, Zenon
    <3> QED BY <2>2, <3>1
  <2> QED BY <1>2, <2>1, <2>2
<1>8. /\ \A i \in 1 .. r : Reads(t)[i] = Reads(s)[i] /\ Reads(s)[i] \in 1 .. n
      /\ \A i \in 1 .. w : /\ Writes(t)[i] = Writes(s)[i] /\ Writes(s)[i] \in 1 .. n
                           /\ s.requests[Writes(s)[i]].what = "data"
  BY <1>2, <1>5, <1>6, <1>7, Zenon DEF StateInv, RequestsOK, Longer
<1>9. /\ \A i \in 1 .. Len(Reads(t)) :
           i \in 1 .. r \/ (i = r + 1 /\ Reads(t)[i] = n + 1)
      /\ \A i \in 1 .. Len(Writes(t)) :
           i \in 1 .. w \/ (i = w + 1 /\ Writes(t)[i] = n + 1 /\ req.what = "data")
  BY <1>6, <1>7
<1>10. RequestsOK(t)
  <2>1. \A i \in 1 .. Len(t.requests) :
          /\ t.requests[i].cmd \in 1 .. Len(t.cmds)
          /\ t.requests[i].what = "data"
               => t.cmds[t.requests[i].cmd].at \in {"moving", "done"}
    <3>1. \A i \in 1 .. n :
            /\ s.requests[i].cmd \in 1 .. Len(s.cmds)
            /\ s.requests[i].what = "data"
                 => s.cmds[s.requests[i].cmd].at \in {"moving", "done"}
      BY <1>2 DEF StateInv, RequestsOK
    <3> QED BY <1>3, <1>4, <3>1
  <2>2. \A i \in 1 .. n : i \in 1 .. Len(t.requests)
    BY <1>3
  <2>3. n + 1 \in 1 .. Len(t.requests)
    BY <1>3
  <2>4. \A i \in 1 .. Len(Reads(t)) : Reads(t)[i] \in 1 .. Len(t.requests)
    BY <1>8, <1>9, <2>2, <2>3, Zenon
  <2>5. ASSUME NEW i \in 1 .. Len(Writes(t))
        PROVE  /\ Writes(t)[i] \in 1 .. Len(t.requests)
               /\ t.requests[Writes(t)[i]].what = "data"
    <3>1. CASE i \in 1 .. w
      BY <1>3, <1>8, <2>2, <3>1
    <3>2. CASE i = w + 1 /\ Writes(t)[i] = n + 1 /\ req.what = "data"
      BY <1>3, <2>3, <3>2
    <3> QED BY <1>9, <3>1, <3>2
  <2> QED BY <2>1, <2>4, <2>5, Zenon DEF RequestsOK
<1>11. ListsThere(t)
  BY DEF StateInv, ListsThere
<1>12. FetchedOnce(t, k)
  <2>1. ASSUME NEW i \in k + 1 .. Len(Reads(t)), NEW c \in 1 .. Len(t.cmds),
               Asks(t, i, c)
        PROVE  \/ i \in k + 1 .. r /\ Asks(s, i, c)
               \/ i = r + 1 /\ req.what = "list" /\ req.cmd = c
    <3>1. i \in 1 .. Len(Reads(t))
      BY <1>6
    <3>2. CASE i \in 1 .. r
      <4>1. Reads(t)[i] = Reads(s)[i] /\ Reads(s)[i] \in 1 .. n
        BY <1>8, <3>2
      <4>2. Asks(s, i, c)
        BY <1>3, <2>1, <4>1, Zenon DEF Asks
      <4>3. i \in k + 1 .. r
        BY <1>6, <3>2
      <4> QED BY <4>2, <4>3
    <3>3. CASE i = r + 1 /\ Reads(t)[i] = n + 1
      BY <1>3, <2>1, <3>3 DEF Asks
    <3> QED BY <1>9, <3>1, <3>2, <3>3
  <2>2. ASSUME NEW i \in k + 1 .. Len(Reads(t)), NEW c \in 1 .. Len(t.cmds),
               Asks(t, i, c)
        PROVE  t.cmds[c].at = "fetching"
    BY <1>5, <2>1, <2>2, Zenon DEF StateInv, FetchedOnce
  <2>3. ASSUME NEW i \in k + 1 .. Len(Reads(t)), NEW c \in 1 .. Len(t.cmds),
               Asks(t, i, c), NEW j \in k + 1 .. Len(Reads(t)), Asks(t, j, c)
        PROVE  i = j
    <3>1. /\ \/ i \in k + 1 .. r /\ Asks(s, i, c)
             \/ i = r + 1 /\ req.what = "list" /\ req.cmd = c
          /\ \/ j \in k + 1 .. r /\ Asks(s, j, c)
             \/ j = r + 1 /\ req.what = "list" /\ req.cmd = c
      BY <2>1, <2>3
    <3>2. req.what = "list" /\ req.cmd = c
            => \A l \in k + 1 .. r : ~Asks(s, l, c)
      BY <1>5 DEF NoneAsked
    <3>3. \A l, m \in k + 1 .. r : Asks(s, l, c) /\ Asks(s, m, c) => l = m
      BY <1>5 DEF StateInv, FetchedOnce
    <3> QED BY <3>1, <3>2, <3>3
  <2> QED BY <2>2, <2>3, Zenon DEF FetchedOnce
<1> QED BY <1>6, <1>7, <1>10, <1>11, <1>12

LEMMA RequestKeeps ==
  ASSUME NEW s, NEW k \in {0, 1}, NEW done, StateInv(s, k, done),
         NEW dir \in {"read", "write"},
         NEW req \in RequestType, req.cmd \in 1 .. Len(s.cmds),
         req.what = "data" => s.cmds[req.cmd].at \in {"moving", "done"},
         req.what = "list" => /\ dir = "read"
                              /\ s.cmds[req.cmd].at = "fetching"
                              /\ NoneAsked(s, k, req.cmd),
         NEW t, t = Request(s, dir, req)
  PROVE  StateInv(t, k, done) /\ Grows(s, t) /\ t.cmds = s.cmds
<1>1. /\ s \in StateType /\ s.write \in QueueType /\ s.read \in QueueType
      /\ s.requests \in Seq(RequestType) /\ Reads(s) \in Seq(Nat)
      /\ Writes(s) \in Seq(Nat)
  BY StateFields
<1>2. PICK R : R = Append(s.requests, req)
  BY Zenon
<1>3. R \in Seq(RequestType) /\ Len(R) = Len(s.requests) + 1 /\ Len(R) \in Nat
  BY <1>1, <1>2
<1>4. PICK a : a = [s EXCEPT !.requests = R]
  BY Zenon
<1>5. /\ a \in StateType /\ a.requests = R /\ a.read = s.read
      /\ a.write = s.write /\ a.cmds = s.cmds
  BY <1>1, <1>3, <1>4, Zenon DEF StateType
<1>6. req.size \in Int /\ req.what \in {"list", "data"}
  BY DEF RequestType
<1>7. CASE dir = "read"
  <2>1. PICK q : q = dmaRead(s.read, Len(R), req.size)
    OBVIOUS
  <2>2. t = [a EXCEPT !.read = q]
    BY <1>2, <1>4, <1>5, <1>7, <2>1 DEF Request
  <2>3. ReadInv(s.read, done)
    BY DEF StateInv
  <2>4. /\ ReadInv(q, done) /\ ReadKept(s.read, q)
        /\ \/ Unanswered(q, q.transferPending)
                = Unanswered(s.read, s.read.transferPending)
           \/ Unanswered(q, q.transferPending)
                = Append(Unanswered(s.read, s.read.transferPending), Len(R))
    <3>1. PICK o, r, z : o = s.read /\ r = Len(R) /\ z = req.size
      OBVIOUS
    <3>2. ReadInv(o, done) /\ r \in Nat /\ z \in Int /\ q = dmaRead(o, r, z)
      BY <1>3, <1>6, <2>1, <2>3, <3>1
    <3>3. /\ ReadInv(q, done) /\ ReadKept(o, q)
          /\ \/ Unanswered(q, q.transferPending) = Unanswered(o, o.transferPending)
             \/ Unanswered(q, q.transferPending)
                  = Append(Unanswered(o, o.transferPending), r)
      BY <3>2, DmaReadLemma, Zenon
    <3> QED BY <3>1, <3>3
  <2>5. q \in QueueType
    BY <2>4 DEF ReadInv
  <2>6. /\ t \in StateType /\ t.requests = R /\ t.read = q
        /\ t.write = s.write /\ t.cmds = s.cmds
    BY <1>5, <2>2, <2>5 DEF StateType
  <2>7. /\ \/ Reads(t) = Reads(s)
           \/ Reads(t) = Append(Reads(s), Len(s.requests) + 1)
        /\ Writes(t) = Writes(s)
    BY <1>3, <2>4, <2>6 DEF Reads, Writes
  <2>8. /\ RequestsOK(t) /\ ListsThere(t) /\ FetchedOnce(t, k)
        /\ Longer(Reads(s), Reads(t)) /\ Longer(Writes(s), Writes(t))
    BY <1>2, <2>6, <2>7, RequestsExtended, Zenon
  <2>9. WriteKept(s.write, t.write)
    BY <2>6 DEF WriteKept, FrontKept
  <2> QED BY <2>4, <2>6, <2>8, <2>9 DEF StateInv, Grows
<1>8. CASE dir = "write"
  <2>1. PICK q : q = dmaWrite(s.write, Len(R), req.size)
    OBVIOUS
  <2>2. t = [a EXCEPT !.write = q]
    BY <1>2, <1>4, <1>5, <1>8, <2>1 DEF Request
  <2>3. WriteInv(s.write)
    BY DEF StateInv
  <2>4. /\ WriteInv(q) /\ WriteKept(s.write, q)
        /\ \/ Unanswered(q, q.insertPending)
                = Unanswered(s.write, s.write.insertPending)
           \/ Unanswered(q, q.insertPending)
                = Append(Unanswered(s.write, s.write.insertPending), Len(R))
    BY <1>3, <1>6, <2>1, <2>3, DmaWriteLemma, Zenon
  <2>5. q \in QueueType
    BY <2>4 DEF WriteInv
  <2>6. /\ t \in StateType /\ t.requests = R /\ t.write = q
        /\ t.read = s.read /\ t.cmds = s.cmds
    BY <1>5, <2>2, <2>5, Zenon DEF StateType
  <2>7. /\ \/ Writes(t) = Writes(s)
           \/ Writes(t) = Append(Writes(s), Len(s.requests) + 1)
              /\ req.what = "data"
        /\ Reads(t) = Reads(s)
    BY <1>3, <1>6, <1>8, <2>4, <2>6 DEF Reads, Writes
  <2>8. /\ RequestsOK(t) /\ ListsThere(t) /\ FetchedOnce(t, k)
        /\ Longer(Reads(s), Reads(t)) /\ Longer(Writes(s), Writes(t))
    BY <1>2, <2>6, <2>7, RequestsExtended, Zenon
  <2>9. ReadKept(s.read, t.read)
    BY <2>6 DEF ReadKept, FrontKept
  <2> QED BY <2>4, <2>6, <2>8, <2>9 DEF StateInv, Grows
<1> QED BY <1>7, <1>8

(***************************************************************************)
(* A command asks for another page of its list, and for its data.          *)
(***************************************************************************)
LEMMA WithAt ==
  ASSUME NEW x \in CommandType,
         NEW at \in {"parsed", "fetching", "fetched", "moving", "done"},
         NEW y, y = [x EXCEPT !.at = at]
  PROVE  y \in CommandType /\ y.at = at /\ y.lists = x.lists
BY Zenon DEF CommandType

LEMMA WithCounter ==
  ASSUME NEW x \in CommandType, NEW n \in Int,
         NEW y, y = [x EXCEPT !.counter = n]
  PROVE  y \in CommandType /\ y.at = x.at
BY Zenon DEF CommandType

LEMMA SameAsks ==
  ASSUME NEW s, NEW t, t.read = s.read, t.requests = s.requests,
         NEW k, NEW c
  PROVE  Reads(t) = Reads(s) /\ (NoneAsked(t, k, c) <=> NoneAsked(s, k, c))
BY DEF Reads, NoneAsked, Asks

LEMMA FetchListKeeps ==
  ASSUME NEW s, NEW k \in {0, 1}, NEW done, StateInv(s, k, done),
         NEW c \in 1 .. Len(s.cmds), s.cmds[c].lists # <<>>,
         s.cmds[c].at \notin {"moving", "done"}, NoneAsked(s, k, c),
         NEW t, t = FetchList(s, c)
  PROVE  StateInv(t, k, done) /\ Grows(s, t) /\ Len(t.cmds) = Len(s.cmds)
<1>1. s.cmds \in Seq(CommandType) /\ Len(s.cmds) \in Nat
  BY StateFields
<1>2. s.cmds[c] \in CommandType /\ c \in Nat
  BY <1>1
<1>3. PICK o, at, x :
        o = s.cmds[c] /\ at = "fetching" /\ x = [o EXCEPT !.at = at]
  BY Zenon
<1>4. x \in CommandType /\ x.at = "fetching" /\ x.lists # <<>>
  <2>1. x = [o EXCEPT !.at = at] /\ o = s.cmds[c] /\ at = "fetching"
    BY <1>3
  <2>2. o \in CommandType
    BY <1>2, <2>1
  <2>3. at \in {"parsed", "fetching", "fetched", "moving", "done"}
    BY <2>1
  <2>4. x \in CommandType /\ x.at = at /\ x.lists = o.lists
    BY ONLY <2>1, <2>2, <2>3, WithAt
  <2> QED BY <2>1, <2>4
<1>5. PICK u : u = Update(s, c, x)
  OBVIOUS
<1>6. /\ StateInv(u, k, done) /\ Grows(s, u)
      /\ u.read = s.read /\ u.requests = s.requests
      /\ Len(u.cmds) = Len(s.cmds) /\ u.cmds[c] = x
  BY <1>4, <1>5, UpdateKeeps
<1>7. NoneAsked(u, k, c)
  BY <1>6, SameAsks
<1>8. PICK req : req = [cmd |-> c, what |-> "list", pos |-> 0,
                        size |-> ListSize(s.cmds[c])]
  BY Zenon
<1>9. req \in RequestType /\ req.cmd = c /\ req.what = "list"
  <2>1. Head(s.cmds[c].lists) \in Seq(ChunkType)
    BY <1>2, HeadList
  <2>2. Len(Head(s.cmds[c].lists)) \in Int
    BY <2>1
  <2>3. ListSize(s.cmds[c]) \in Int
    BY <2>2, DMAListsAssumption DEF ListSize
  <2> QED BY <1>2, <1>8, <2>3 DEF RequestType
<1>10. t = Request(u, "read", req)
  BY <1>3, <1>5, <1>8 DEF FetchList
<1>11. StateInv(t, k, done) /\ Grows(u, t) /\ t.cmds = u.cmds
  BY <1>4, <1>6, <1>7, <1>9, <1>10, RequestKeeps
<1>12. Grows(s, t)
  BY <1>6, <1>11, GrowsTrans
<1> QED BY <1>6, <1>11, <1>12

LEMMA AskForKeeps ==
  ASSUME NEW s, NEW k \in {0, 1}, NEW done, StateInv(s, k, done),
         NEW c \in 1 .. Len(s.cmds), s.cmds[c].at \in {"moving", "done"},
         NEW g \in SegmentType, NEW t, t = AskFor(s, c, g)
  PROVE  StateInv(t, k, done) /\ Grows(s, t) /\ t.cmds = s.cmds
<1>1. s.cmds \in Seq(CommandType) /\ Len(s.cmds) \in Nat
  BY StateFields
<1>2. s.cmds[c] \in CommandType /\ c \in Nat
  BY <1>1
<1>3. PICK dir : dir = s.cmds[c].transfer.dir
  OBVIOUS
<1>4. dir \in {"read", "write"}
  BY <1>2, <1>3, CommandFields, TransferFields
<1>5. PICK req : req = [cmd |-> c, what |-> "data", pos |-> g.pos, size |-> g.size]
  BY Zenon
<1>6. req \in RequestType /\ req.cmd = c /\ req.what = "data"
  BY <1>2, <1>5 DEF RequestType, SegmentType
<1>7. t = Request(s, dir, req)
  BY <1>3, <1>5 DEF AskFor
<1> QED BY <1>4, <1>6, <1>7, RequestKeeps

(***************************************************************************)
(* The data of a command is asked for, one segment after the other.        *)
(***************************************************************************)
Transferring(x, segs) ==
  [x EXCEPT !.at = IF segs = <<>> THEN "done" ELSE "moving",
            !.counter = Len(segs)]

TransferRun(s, c, t, k, done, segs, y, u, g) ==
  /\ y = Transferring(s.cmds[c], segs)
  /\ segs = Segments(s.cmds[c].chunks, s.cmds[c].transfer.offset,
                     s.cmds[c].transfer.length)
  /\ segs \in Seq(SegmentType)
  /\ y \in CommandType /\ y.at \in {"moving", "done"}
  /\ u = Update(s, c, y) /\ g[0] = u /\ t = g[Len(segs)]
  /\ \A i \in 0 .. Len(segs) :
       StateInv(g[i], k, done) /\ Grows(u, g[i]) /\ g[i].cmds = u.cmds
  /\ \A i \in 1 .. Len(segs) : g[i] = AskFor(g[i - 1], c, segs[i])

LEMMA TransferTrace ==
  ASSUME NEW s, NEW k \in {0, 1}, NEW done, StateInv(s, k, done),
         NEW c \in 1 .. Len(s.cmds), NoneAsked(s, k, c),
         NEW t, t = Transfer(s, c)
  PROVE  \E segs, y, u, g : TransferRun(s, c, t, k, done, segs, y, u, g)
<1>1. s.cmds \in Seq(CommandType) /\ Len(s.cmds) \in Nat
  BY StateFields
<1>2. PICK x : x = s.cmds[c]
  OBVIOUS
<1>3. x \in CommandType
  BY <1>1, <1>2
<1>4. PICK segs : segs = Segments(x.chunks, x.transfer.offset, x.transfer.length)
  OBVIOUS
<1>5. segs \in Seq(SegmentType)
  BY <1>3, <1>4, CommandFields, TransferFields, SegmentsType, Zenon
<1>6. PICK y : y = [x EXCEPT !.at = IF segs = <<>> THEN "done" ELSE "moving",
                             !.counter = Len(segs)]
  OBVIOUS
<1>7. y \in CommandType /\ y.at \in {"moving", "done"}
  <2>1. PICK at, n : at = (IF segs = <<>> THEN "done" ELSE "moving") /\ n = Len(segs)
    OBVIOUS
  <2>2. /\ at \in {"parsed", "fetching", "fetched", "moving", "done"}
        /\ at \in {"moving", "done"} /\ n \in Int
    BY <1>5, <2>1
  <2>3. y = [x EXCEPT !.at = at, !.counter = n]
    BY <1>6, <2>1
  <2>4. n \in Int /\ at \in {"parsed", "fetching", "fetched", "moving", "done"}
    BY <2>2
  <2>5. PICK w : w = [x EXCEPT !.at = at]
    BY Zenon
  <2>6. w \in CommandType /\ w.at = at
    BY ONLY <1>3, <2>4, <2>5, WithAt
  <2>7. y = [w EXCEPT !.counter = n]
    BY <2>3, <2>5
  <2>8. y \in CommandType /\ y.at = w.at
    BY ONLY <2>4, <2>6, <2>7, WithCounter
  <2> QED BY <2>2, <2>6, <2>8
<1>8. PICK u : u = Update(s, c, y)
  OBVIOUS
<1>9. /\ StateInv(u, k, done) /\ Grows(s, u)
      /\ Len(u.cmds) = Len(s.cmds) /\ u.cmds[c] = y
  BY <1>7, <1>8, UpdateKeeps
<1> DEFINE n == Len(segs)
           S == {v \in StateType : /\ StateInv(v, k, done) /\ Grows(u, v)
                                   /\ v.cmds = u.cmds}
           step == [i \in 1 .. n |-> [v \in S |-> AskFor(v, c, segs[i])]]
           f == CHOOSE f : f = [i \in 0 .. n |->
                  IF i = 0 THEN u ELSE AskFor(f[i - 1], c, segs[i])]
<1>10. t = f[n]
  <2> DEFINE X == s.cmds[c]
             G == Segments(X.chunks, X.transfer.offset, X.transfer.length)
             U == Update(s, c, [X EXCEPT
                    !.at = IF G = <<>> THEN "done" ELSE "moving",
                    !.counter = Len(G)])
             F(v, l) == (CHOOSE h : h = [i \in 0 .. Len(l) |->
                           IF i = 0 THEN v ELSE AskFor(h[i - 1], c, l[i])])[Len(l)]
  <2>1. Transfer(s, c) = F(U, G)
    BY Zenon DEF Transfer, Fold
  <2>2. segs = G
    BY <1>2, <1>4
  <2> HIDE DEF G
  <2>3. u = U
    BY <1>2, <1>6, <1>8, <2>2
  <2>4. f[n] = F(u, segs)
    BY Zenon
  <2> HIDE DEF U, F
  <2> QED BY <2>1, <2>2, <2>3, <2>4
<1>11. n \in Nat /\ \A i \in 1 .. n : segs[i] \in SegmentType
  BY <1>5
<1>12. u \in S
  <2>1. u \in StateType
    BY <1>9 DEF StateInv
  <2>2. Grows(u, u)
    BY GrowsRefl
  <2> QED BY <1>9, <2>1, <2>2
<1>13. step \in [1 .. n -> [S -> S]]
  <2>1. ASSUME NEW i \in 1 .. n, NEW v \in S
        PROVE  AskFor(v, c, segs[i]) \in S
    <3>1. PICK w : w = AskFor(v, c, segs[i])
      OBVIOUS
    <3>2. StateInv(v, k, done) /\ Grows(u, v) /\ v.cmds = u.cmds
      OBVIOUS
    <3>3. c \in 1 .. Len(v.cmds) /\ v.cmds[c].at \in {"moving", "done"}
      BY <1>7, <1>9, <3>2
    <3>4. segs[i] \in SegmentType
      BY <1>11
    <3>5. StateInv(w, k, done) /\ Grows(v, w) /\ w.cmds = v.cmds
      BY <3>1, <3>2, <3>3, <3>4, AskForKeeps
    <3>6. Grows(u, w)
      BY <1>9, <3>2, <3>5, GrowsTrans
    <3>7. w \in StateType
      BY <3>5 DEF StateInv
    <3> QED BY <3>1, <3>2, <3>5, <3>6, <3>7
  <2> HIDE DEF S, n
  <2> QED BY <2>1
<1> HIDE DEF n, S
<1>14. PICK g : IsTrace(g, n, S, u, step)
  <2> HIDE DEF step
  <2> QED BY <1>11, <1>12, <1>13, LoopTrace
<1>15. g \in [0 .. n -> S] /\ g[0] = u
       /\ \A i \in 1 .. n : g[i] = step[i][g[i - 1]]
  BY <1>14 DEF IsTrace
<1>16. \A i \in 1 .. n : g[i - 1] \in S
  BY <1>11, <1>15
<1>17. \A i \in 1 .. n : g[i] = AskFor(g[i - 1], c, segs[i])
  BY <1>15, <1>16, Zenon
<1>18. g = [i \in 0 .. n |-> IF i = 0 THEN u ELSE AskFor(g[i - 1], c, segs[i])]
  <2>1. \A i \in 0 .. n : i = 0 \/ i \in 1 .. n
    BY <1>11
  <2> QED BY ONLY <1>15, <1>17, <2>1
<1>19. f = [i \in 0 .. n |-> IF i = 0 THEN u ELSE AskFor(f[i - 1], c, segs[i])]
  BY <1>18, Zenon
<1> HIDE DEF f, step
<1> DEFINE T == {i \in 0 .. n : f[i] = g[i]}
<1>20. 0 \in T
  <2>1. 0 \in 0 .. n
    BY <1>11
  <2> QED BY <1>15, <1>19, <2>1
<1>21. ASSUME NEW i \in 1 .. n, i - 1 \in T
       PROVE  i \in T
  <2>1. i \in 0 .. n /\ i # 0
    BY <1>11
  <2> QED BY <1>17, <1>19, <1>21, <2>1
<1> HIDE DEF T
<1>22. \A i \in 0 .. n : i \in T
  BY <1>11, <1>20, <1>21, UpTo, Zenon
<1>23. n \in 0 .. n
  BY <1>11
<1>24. t = g[n]
  BY <1>10, <1>22, <1>23 DEF T
<1>25. \A i \in 0 .. n : StateInv(g[i], k, done) /\ Grows(u, g[i]) /\ g[i].cmds = u.cmds
  BY <1>15 DEF S
<1>26. y = Transferring(s.cmds[c], segs)
  BY <1>2, <1>6 DEF Transferring
<1>27. TransferRun(s, c, t, k, done, segs, y, u, g)
  <2>1. /\ segs = Segments(s.cmds[c].chunks, s.cmds[c].transfer.offset,
                           s.cmds[c].transfer.length)
        /\ g[0] = u /\ u = Update(s, c, y)
    BY <1>2, <1>4, <1>8, <1>15
  <2> QED BY ONLY <1>5, <1>7, <1>17, <1>24, <1>25, <1>26, <2>1, Zenon
         DEF TransferRun, n
<1> QED BY <1>27

LEMMA TransferKeeps ==
  ASSUME NEW s, NEW k \in {0, 1}, NEW done, StateInv(s, k, done),
         NEW c \in 1 .. Len(s.cmds), NoneAsked(s, k, c),
         NEW t, t = Transfer(s, c)
  PROVE  StateInv(t, k, done) /\ Grows(s, t) /\ Len(t.cmds) = Len(s.cmds)
<1>1. PICK segs, y, u, g : TransferRun(s, c, t, k, done, segs, y, u, g)
  BY TransferTrace
<1>2. segs \in Seq(SegmentType)
  BY <1>1, Zenon DEF TransferRun
<1>3. y \in CommandType /\ y.at \in {"moving", "done"} /\ u = Update(s, c, y)
  BY <1>1, Zenon DEF TransferRun
<1>4. StateInv(u, k, done) /\ Grows(s, u) /\ Len(u.cmds) = Len(s.cmds)
  BY <1>3, UpdateKeeps
<1>5. Len(segs) \in 0 .. Len(segs)
  BY <1>2
<1>6. StateInv(t, k, done) /\ Grows(u, t) /\ t.cmds = u.cmds
  BY <1>1, <1>5, Zenon DEF TransferRun
<1>7. Grows(s, t)
  BY <1>4, <1>6, GrowsTrans
<1> QED BY <1>4, <1>6, <1>7

LEMMA ParseListKeeps ==
  ASSUME NEW s, NEW k \in {0, 1}, NEW done, StateInv(s, k, done),
         NEW c \in 1 .. Len(s.cmds), s.cmds[c].lists # <<>>,
         s.cmds[c].at \notin {"moving", "done"}, NoneAsked(s, k, c),
         NEW t, t = ParseList(s, c)
  PROVE  StateInv(t, k, done) /\ Grows(s, t) /\ Len(t.cmds) = Len(s.cmds)
<1>1. s.cmds \in Seq(CommandType) /\ Len(s.cmds) \in Nat
  BY StateFields
<1>2. s.cmds[c] \in CommandType
  BY <1>1
<1>3. PICK p : p = IF s.cmds[c].transfer.kind = "sgl" THEN parseSGLSegment(s.cmds[c])
                   ELSE getPRPListFromPRP(s.cmds[c])
  OBVIOUS
<1>4. p \in CommandType
  BY <1>2, <1>3, SGLSegmentTaken, PRPPageTaken
<1>5. PICK x : x = [p EXCEPT !.at = "parsed"]
  BY Zenon
<1>6. x \in CommandType /\ x.at = "parsed" /\ x.lists = p.lists
  BY <1>4, <1>5, WithAt
<1>7. PICK u : u = Update(s, c, x)
  OBVIOUS
<1>8. /\ StateInv(u, k, done) /\ Grows(s, u)
      /\ u.read = s.read /\ u.requests = s.requests
      /\ Len(u.cmds) = Len(s.cmds) /\ u.cmds[c] = x
  BY <1>6, <1>7, UpdateKeeps
<1>9. NoneAsked(u, k, c)
  BY <1>8, SameAsks
<1>10. t = IF p.lists # <<>> THEN FetchList(u, c)
           ELSE IF cores THEN u ELSE Transfer(u, c)
  BY <1>3, <1>5, <1>7 DEF ParseList
<1>11. StateInv(t, k, done) /\ Grows(u, t) /\ Len(t.cmds) = Len(u.cmds)
  <2>1. CASE p.lists # <<>>
    BY <1>6, <1>8, <1>9, <1>10, <2>1, FetchListKeeps
  <2>2. CASE p.lists = <<>> /\ cores
    BY <1>8, <1>10, <2>2, GrowsRefl
  <2>3. CASE p.lists = <<>> /\ ~cores
    BY <1>8, <1>9, <1>10, <2>3, TransferKeeps
  <2> QED BY <2>1, <2>2, <2>3
<1>12. Grows(s, t)
  BY <1>8, <1>11, GrowsTrans
<1> QED BY <1>8, <1>11, <1>12

(***************************************************************************)
(* The callback of a request, while the request is the first one that      *)
(* waits.  A page of a list was asked for once, so its command waits for   *)
(* nothing else.                                                           *)
(***************************************************************************)
LEMMA DataMovedKeeps ==
  ASSUME NEW s, NEW k \in {0, 1}, NEW done, StateInv(s, k, done),
         NEW c \in 1 .. Len(s.cmds), s.cmds[c].at \in {"moving", "done"},
         NEW t, t = DataMoved(s, c)
  PROVE  StateInv(t, k, done) /\ Grows(s, t)
<1>1. s.cmds \in Seq(CommandType) /\ Len(s.cmds) \in Nat
  BY StateFields
<1>2. PICK x, n, at, w, y :
        /\ x = s.cmds[c] /\ n = x.counter - 1
        /\ at = (IF x.counter = 1 THEN "done" ELSE x.at)
        /\ w = [x EXCEPT !.counter = n] /\ y = [w EXCEPT !.at = at]
  BY Zenon
<1>3. x \in CommandType
  BY <1>1, <1>2
<1>4. n \in Int /\ x.at \in {"moving", "done"}
  BY <1>2, <1>3 DEF CommandType
<1>5. at \in {"moving", "done"}
  BY <1>2, <1>4
<1>6. at \in {"parsed", "fetching", "fetched", "moving", "done"}
  BY <1>5
<1>7. w \in CommandType
  <2>1. w = [x EXCEPT !.counter = n]
    BY <1>2
  <2> QED BY ONLY <1>3, <1>4, <2>1, WithCounter
<1>8. y = [w EXCEPT !.at = at]
  BY <1>2
<1>9. y \in CommandType /\ y.at = at
  BY ONLY <1>6, <1>7, <1>8, WithAt
<1>10. t = Update(s, c, y)
  BY <1>2 DEF DataMoved
<1>11. NoneAsked(s, k, c)
  BY DEF StateInv, FetchedOnce, NoneAsked
<1> QED BY <1>5, <1>9, <1>10, <1>11, UpdateKeeps

LEMMA NotTheLast ==
  ASSUME NEW s, NEW p, ~p.last
  PROVE  Callback(s, p) = s
BY DEF Callback

LEMMA WriteCallbackKeeps ==
  ASSUME NEW s, NEW done, StateInv(s, 0, done),
         NEW p \in PieceType, p.last,
         1 <= Len(Writes(s)), Writes(s)[1] = p.req,
         NEW t, t = Callback(s, p)
  PROVE  StateInv(t, 0, done) /\ Grows(s, t)
<1>1. Len(Writes(s)) \in Nat
  BY StateFields
<1>2. 1 \in 1 .. Len(Writes(s))
  BY <1>1
<1>3. p.req \in 1 .. Len(s.requests) /\ s.requests[p.req].what = "data"
  BY <1>2 DEF StateInv, RequestsOK
<1>4. PICK c : c = s.requests[p.req].cmd
  OBVIOUS
<1>5. c \in 1 .. Len(s.cmds) /\ s.cmds[c].at \in {"moving", "done"}
  BY <1>3, <1>4, Zenon DEF StateInv, RequestsOK
<1>6. t = DataMoved(s, c)
  BY <1>3, <1>4 DEF Callback
<1>7. PICK k : k = 0 /\ k \in {0, 1}
  OBVIOUS
<1> QED BY <1>5, <1>6, <1>7, DataMovedKeeps

LEMMA ReadCallbackKeeps ==
  ASSUME NEW s, NEW done, StateInv(s, 0, done),
         NEW p \in PieceType, p.last,
         1 <= Len(Reads(s)), Reads(s)[1] = p.req,
         NEW t, t = Callback(s, p)
  PROVE  StateInv(t, 1, done) /\ Grows(s, t)
<1>1. /\ Len(Reads(s)) \in Nat /\ s.cmds \in Seq(CommandType)
      /\ s.requests \in Seq(RequestType)
  BY StateFields
<1>2. 1 \in 1 .. Len(Reads(s)) /\ \A i \in 2 .. Len(Reads(s)) : i \in 1 .. Len(Reads(s)) /\ i # 1
  BY <1>1
<1>3. p.req \in 1 .. Len(s.requests)
  BY <1>2 DEF StateInv, RequestsOK
<1>4. PICK c : c = s.requests[p.req].cmd
  OBVIOUS
<1>5. /\ c \in 1 .. Len(s.cmds)
      /\ s.requests[p.req].what = "data" => s.cmds[c].at \in {"moving", "done"}
  BY <1>3, <1>4, Zenon DEF StateInv, RequestsOK
<1>6. /\ 0 + 1 = 1 /\ 1 + 1 = 2
      /\ \A i \in 1 .. Len(Reads(s)), d \in 1 .. Len(s.cmds) :
           Asks(s, i, d) =>
             /\ s.cmds[d].at = "fetching"
             /\ \A j \in 1 .. Len(Reads(s)) : Asks(s, j, d) => i = j
  <2>1. 0 + 1 = 1 /\ 1 + 1 = 2
    OBVIOUS
  <2>2. FetchedOnce(s, 0)
    BY DEF StateInv
  <2> QED BY <2>1, <2>2 DEF FetchedOnce
<1>7. StateInv(s, 1, done)
  <2>1. FetchedOnce(s, 1)
    BY <1>2, <1>6 DEF FetchedOnce
  <2> QED BY <2>1 DEF StateInv
<1>8. PICK k : k = 1 /\ k \in {0, 1}
  OBVIOUS
<1>9. CASE s.requests[p.req].what = "data"
  <2>1. t = DataMoved(s, c)
    BY <1>4, <1>9 DEF Callback
  <2> QED BY <1>5, <1>7, <1>8, <1>9, <2>1, DataMovedKeeps
<1>10. CASE s.requests[p.req].what = "list"
  <2>1. Asks(s, 1, c)
    BY <1>4, <1>10 DEF Asks
  <2>2. s.cmds[c].at = "fetching"
    BY <1>2, <1>5, <1>6, <2>1
  <2>3. NoneAsked(s, 1, c)
    BY <1>2, <1>5, <1>6, <2>1 DEF NoneAsked
  <2>4. s.cmds[c].lists # <<>>
    BY <1>5, <2>2 DEF StateInv, ListsThere
  <2>5. CASE cores
    <3> DEFINE z == [s.cmds[c] EXCEPT !.at = "fetched"]
    <3>1. PICK x, at : x = s.cmds[c] /\ at = "fetched"
      OBVIOUS
    <3>2. PICK y : y = [x EXCEPT !.at = at]
      BY Zenon
    <3>3. /\ x \in CommandType
          /\ at \in {"parsed", "fetching", "fetched", "moving", "done"}
      BY <1>1, <1>5, <3>1
    <3>4. y \in CommandType /\ y.at = at /\ y.lists = x.lists
      BY ONLY <3>2, <3>3, WithAt
    <3>5. t = Update(s, c, y)
      <4>1. t = Update(s, c, z)
        BY <1>4, <1>10, <2>5, Zenon DEF Callback
      <4>2. y = z
        BY <3>1, <3>2
      <4> HIDE DEF z
      <4> QED BY <4>1, <4>2
    <3>6. y.lists # <<>> /\ s.cmds[c].at \notin {"moving", "done"}
      BY <2>2, <2>4, <3>1, <3>4
    <3> QED BY <1>5, <1>7, <1>8, <2>3, <3>1, <3>4, <3>5, <3>6, UpdateKeeps
  <2>6. CASE ~cores
    <3>1. t = ParseList(s, c)
      BY <1>4, <1>10, <2>6 DEF Callback
    <3>2. s.cmds[c].at \notin {"moving", "done"}
      BY <2>2
    <3> QED BY <1>5, <1>7, <1>8, <2>3, <2>4, <3>1, <3>2, ParseListKeeps
  <2> QED BY <2>5, <2>6
<1>11. s.requests[p.req].what \in {"list", "data"}
  <2>1. s.requests[p.req] \in RequestType
    BY <1>1, <1>3
  <2> QED BY <2>1 DEF RequestType
<1> QED BY <1>9, <1>10, <1>11

-----------------------------------------------------------------------------
(***************************************************************************)
(* The queues go on, with the same requests or without the first of them.  *)
(***************************************************************************)
LEMMA QueuesGoOn ==
  ASSUME NEW s, NEW done, StateInv(s, 0, done),
         NEW t \in StateType, t.requests = s.requests, t.cmds = s.cmds,
         NEW then, WriteInv(t.write), ReadInv(t.read, then),
         Reads(t) = Reads(s), Writes(t) = Writes(s)
  PROVE  StateInv(t, 0, then)
<1>1. RequestsOK(t)
  BY DEF StateInv, RequestsOK
<1>2. ListsThere(t)
  BY DEF StateInv, ListsThere
<1>3. FetchedOnce(t, 0)
  BY DEF StateInv, FetchedOnce, Asks
<1> QED BY <1>1, <1>2, <1>3 DEF StateInv

LEMMA WithoutFirst ==
  ASSUME NEW a \in Seq(Nat), NEW r \in Nat, NEW b, b = <<r>> \o a
  PROVE  /\ Len(a) \in Nat /\ Len(b) = Len(a) + 1 /\ b[1] = r
         /\ \A i \in 1 .. Len(a) : i + 1 \in 2 .. Len(b) /\ b[i + 1] = a[i]
OBVIOUS

LEMMA AnsweredWrite ==
  ASSUME NEW s, NEW done, StateInv(s, 0, done),
         NEW t \in StateType, t.requests = s.requests, t.cmds = s.cmds,
         t.read = s.read, WriteInv(t.write),
         NEW r \in Nat, Writes(t) \in Seq(Nat), Writes(s) = <<r>> \o Writes(t)
  PROVE  StateInv(t, 0, done)
<1>1. Reads(t) = Reads(s)
  BY DEF Reads
<1>2. \A i \in 1 .. Len(Writes(t)) :
        i + 1 \in 1 .. Len(Writes(s)) /\ Writes(s)[i + 1] = Writes(t)[i]
  BY WithoutFirst
<1>3. RequestsOK(t)
  BY <1>1, <1>2 DEF StateInv, RequestsOK
<1>4. ListsThere(t)
  BY DEF StateInv, ListsThere
<1>5. FetchedOnce(t, 0)
  BY <1>1 DEF StateInv, FetchedOnce, Asks
<1> QED BY <1>3, <1>4, <1>5 DEF StateInv

LEMMA AnsweredRead ==
  ASSUME NEW s, NEW done, StateInv(s, 1, done),
         NEW t \in StateType, t.requests = s.requests, t.cmds = s.cmds,
         t.write = s.write, ReadInv(t.read, done),
         NEW r \in Nat, Reads(t) \in Seq(Nat), Reads(s) = <<r>> \o Reads(t)
  PROVE  StateInv(t, 0, done)
<1>1. Writes(t) = Writes(s)
  BY DEF Writes
<1>2. /\ Len(Reads(t)) \in Nat /\ Len(Reads(s)) = Len(Reads(t)) + 1
      /\ \A i \in 1 .. Len(Reads(t)) :
           /\ i + 1 \in 2 .. Len(Reads(s)) /\ i + 1 \in 1 .. Len(Reads(s))
           /\ Reads(s)[i + 1] = Reads(t)[i]
  BY WithoutFirst
<1>3. RequestsOK(t)
  BY <1>1, <1>2, Zenon DEF StateInv, RequestsOK
<1>4. ListsThere(t)
  BY DEF StateInv, ListsThere
<1>5. FetchedOnce(t, 0)
  <2>1. /\ 0 + 1 = 1 /\ 1 + 1 = 2
        /\ \A i \in 2 .. Len(Reads(s)), c \in 1 .. Len(s.cmds) :
             Asks(s, i, c) =>
               /\ s.cmds[c].at = "fetching"
               /\ \A j \in 2 .. Len(Reads(s)) : Asks(s, j, c) => i = j
    <3>1. 0 + 1 = 1 /\ 1 + 1 = 2
      OBVIOUS
    <3>2. FetchedOnce(s, 1)
      BY DEF StateInv
    <3> QED BY <3>1, <3>2 DEF FetchedOnce
  <2>2. \A i \in 1 .. Len(Reads(t)) : \A c : Asks(t, i, c) <=> Asks(s, i + 1, c)
    BY <1>2, Zenon DEF Asks
  <2>3. \A i \in 1 .. Len(Reads(t)), c \in 1 .. Len(t.cmds) :
          Asks(t, i, c) =>
            /\ t.cmds[c].at = "fetching"
            /\ \A j \in 1 .. Len(Reads(t)) : Asks(t, j, c) => i + 1 = j + 1
    BY <1>2, <2>1, <2>2, Zenon
  <2>4. \A i, j \in 1 .. Len(Reads(t)) : i + 1 = j + 1 => i = j
    OBVIOUS
  <2> QED BY <2>1, <2>3, <2>4 DEF FetchedOnce
<1> QED BY <1>3, <1>4, <1>5 DEF StateInv

(***************************************************************************)
(* How what waits for an answer changes, as the users of the channel see   *)
(* it: more requests are made, or the first one is answered and more are   *)
(* made.                                                                   *)
(***************************************************************************)
LEMMA PendingFields ==
  /\ DOMAIN Pending = {"read", "write"}
  /\ Pending["read"] = Reads(State) /\ Pending["write"] = Writes(State)
  /\ DOMAIN Pending' = {"read", "write"}
  /\ Pending'["read"] = Reads(State') /\ Pending'["write"] = Writes(State')
<1>1. /\ State.read = readQueue /\ State.write = writeQueue
      /\ State'.read = readQueue' /\ State'.write = writeQueue'
  BY DEF State
<1> QED BY <1>1 DEF Pending, Reads, Writes

LEMMA LongerIsPrefix ==
  ASSUME NEW a \in Seq(Nat), NEW b \in Seq(Nat), Longer(a, b)
  PROVE  Len(a) <= Len(b) /\ a = SubSeq(b, 1, Len(a))
<1>1. Len(a) \in Nat /\ Len(b) \in Nat /\ Len(a) <= Len(b)
  BY DEF Longer
<1>2. PICK c : c = SubSeq(b, 1, Len(a))
  BY Zenon
<1>3. Len(c) = Len(a) /\ c \in Seq(Nat)
  BY <1>1, <1>2
<1>4. \A i \in 1 .. Len(a) : c[i] = a[i]
  BY <1>1, <1>2 DEF Longer
<1>5. a = c
  <2>1. a = [i \in 1 .. Len(a) |-> a[i]] /\ c = [i \in 1 .. Len(c) |-> c[i]]
    BY <1>3
  <2> QED BY <1>1, <1>3, <1>4, <2>1, Zenon
<1> QED BY <1>1, <1>2, <1>5

LEMMA PendingIs ==
  /\ Channel!Init <=> Pending = [d \in {"read", "write"} |-> <<>>]
  /\ Channel!Submit <=>
       /\ Pending' # Pending
       /\ \A d \in {"read", "write"} :
            /\ Len(Pending[d]) <= Len(Pending'[d])
            /\ Pending[d] = SubSeq(Pending'[d], 1, Len(Pending[d]))
  /\ \A d : Channel!Answer(d) <=>
       /\ Pending[d] # <<>>
       /\ \A e \in {"read", "write"} :
            LET p == IF e = d THEN Tail(Pending[d]) ELSE Pending[e]
            IN  Len(p) <= Len(Pending'[e]) /\ p = SubSeq(Pending'[e], 1, Len(p))
<1>1. Channel!Init <=> Pending = [d \in {"read", "write"} |-> <<>>]
  BY DEF Channel!Init, Channel!Directions
<1>2. Channel!Submit <=>
       /\ Pending' # Pending
       /\ \A d \in {"read", "write"} :
            /\ Len(Pending[d]) <= Len(Pending'[d])
            /\ Pending[d] = SubSeq(Pending'[d], 1, Len(Pending[d]))
  BY DEF Channel!Submit, Channel!Directions, Channel!Requested
<1>3. ASSUME NEW d
      PROVE  Channel!Answer(d) <=>
       /\ Pending[d] # <<>>
       /\ \A e \in {"read", "write"} :
            LET p == IF e = d THEN Tail(Pending[d]) ELSE Pending[e]
            IN  Len(p) <= Len(Pending'[e]) /\ p = SubSeq(Pending'[e], 1, Len(p))
  BY DEF Channel!Answer, Channel!Directions, Channel!Requested
<1> QED BY <1>1, <1>2, <1>3, Zenon

LEMMA MoreRequests ==
  ASSUME Reads(State) \in Seq(Nat), Reads(State') \in Seq(Nat),
         Writes(State) \in Seq(Nat), Writes(State') \in Seq(Nat),
         Longer(Reads(State), Reads(State')), Longer(Writes(State), Writes(State'))
  PROVE  Channel!Next \/ UNCHANGED Pending
<1>1. CASE Pending' # Pending
  <2>1. \A d \in {"read", "write"} :
          /\ Len(Pending[d]) <= Len(Pending'[d])
          /\ Pending[d] = SubSeq(Pending'[d], 1, Len(Pending[d]))
    BY PendingFields, LongerIsPrefix
  <2>2. Channel!Submit
    BY <1>1, <2>1, PendingIs
  <2> QED BY <2>2 DEF Channel!Next
<1> QED BY <1>1

LEMMA AnswerAndMore ==
  ASSUME Reads(State) \in Seq(Nat), Reads(State') \in Seq(Nat),
         Writes(State) \in Seq(Nat), Writes(State') \in Seq(Nat),
         NEW d \in {"read", "write"}, Pending[d] # <<>>,
         Longer(IF d = "read" THEN Tail(Reads(State)) ELSE Reads(State),
                Reads(State')),
         Longer(IF d = "write" THEN Tail(Writes(State)) ELSE Writes(State),
                Writes(State'))
  PROVE  Channel!Next
<1>1. ASSUME NEW e \in {"read", "write"}
      PROVE  LET p == IF e = d THEN Tail(Pending[d]) ELSE Pending[e]
             IN  Len(p) <= Len(Pending'[e]) /\ p = SubSeq(Pending'[e], 1, Len(p))
  <2>1. PICK p : p = IF e = d THEN Tail(Pending[d]) ELSE Pending[e]
    BY Zenon
  <2>2. Pending[d] \in Seq(Nat) /\ Pending[e] \in Seq(Nat) /\ Pending'[e] \in Seq(Nat)
    BY PendingFields
  <2>3. Tail(Pending[d]) \in Seq(Nat)
    BY <2>2
  <2>4. p \in Seq(Nat)
    BY <2>1, <2>2, <2>3
  <2>5. Longer(p, Pending'[e])
    BY <2>1, PendingFields
  <2>6. PICK b : b = Pending'[e]
    OBVIOUS
  <2>7. b \in Seq(Nat) /\ Longer(p, b)
    BY <2>2, <2>5, <2>6
  <2>8. Len(p) <= Len(b) /\ p = SubSeq(b, 1, Len(p))
    BY ONLY <2>4, <2>7, LongerIsPrefix
  <2> QED BY <2>1, <2>6, <2>8
<1>2. Channel!Answer(d)
  BY <1>1, PendingIs, Zenon
<1>3. Channel!Directions = {"read", "write"}
  BY DEF Channel!Directions
<1> QED BY <1>2, <1>3 DEF Channel!Next

LEMMA BecomesState ==
  ASSUME NEW s \in StateType, Becomes(s)
  PROVE  State' = s /\ UNCHANGED <<readCompletion, cores>>
BY DEF Becomes, State, StateType

(***************************************************************************)
(* What every step does: DMAInv is kept, and the channel takes a step.     *)
(***************************************************************************)
GoesOn == DMAInv' /\ (Channel!Next \/ UNCHANGED Pending)

LEMMA GrowingGoesOn ==
  ASSUME DMAInv, NEW s, StateInv(s, 0, readCompletion),
         Longer(Reads(State), Reads(s)), Longer(Writes(State), Writes(s)),
         Becomes(s)
  PROVE  GoesOn
<1>1. s \in StateType
  BY StateFields
<1>2. State' = s /\ UNCHANGED <<readCompletion, cores>>
  BY <1>1, BecomesState
<1>3. DMAInv'
  BY <1>2 DEF DMAInv
<1>4. StateInv(State, 0, readCompletion)
  BY DEF DMAInv
<1>5. /\ Reads(State) \in Seq(Nat) /\ Writes(State) \in Seq(Nat)
      /\ Reads(s) \in Seq(Nat) /\ Writes(s) \in Seq(Nat)
  BY <1>4, StateFields
<1>6. Channel!Next \/ UNCHANGED Pending
  BY <1>2, <1>5, MoreRequests
<1> QED BY <1>3, <1>6 DEF GoesOn

-----------------------------------------------------------------------------
(* The steps of the firmware.                                              *)

LEMMA SubmitKeeps ==
  ASSUME NEW s, NEW done, StateInv(s, 0, done),
         NEW x \in CommandType, x.at = "parsed",
         NEW u, u = [s EXCEPT !.cmds = Append(@, x)]
  PROVE  /\ StateInv(u, 0, done) /\ Grows(s, u)
         /\ Len(u.cmds) = Len(s.cmds) + 1 /\ u.cmds[Len(u.cmds)] = x
         /\ Len(u.cmds) \in 1 .. Len(u.cmds)
         /\ NoneAsked(u, 0, Len(u.cmds))
<1>1. s \in StateType /\ s.cmds \in Seq(CommandType) /\ Len(s.cmds) \in Nat
  BY StateFields
<1>2. PICK m, n : m = Append(s.cmds, x) /\ n = Len(s.cmds)
  BY Zenon
<1>3. /\ m \in Seq(CommandType) /\ Len(m) = n + 1 /\ m[n + 1] = x /\ n \in Nat
      /\ \A c \in 1 .. n : m[c] = s.cmds[c]
  BY <1>1, <1>2
<1>4. u = [s EXCEPT !.cmds = m]
  BY <1>2
<1>5. /\ u \in StateType /\ u.cmds = m /\ u.requests = s.requests
      /\ u.read = s.read /\ u.write = s.write
  BY <1>1, <1>3, <1>4, Zenon DEF StateType
<1>6. Reads(u) = Reads(s) /\ Writes(u) = Writes(s)
  BY <1>5 DEF Reads, Writes
<1>7. /\ \A c \in 1 .. n + 1 : c \in 1 .. n \/ c = n + 1
      /\ \A c \in 1 .. n : c \in 1 .. n + 1 /\ c # n + 1
  BY <1>3
<1>8. \A i \in 1 .. Len(s.requests) :
        /\ s.requests[i].cmd \in 1 .. n
        /\ s.requests[i].what = "data"
             => s.cmds[s.requests[i].cmd].at \in {"moving", "done"}
  BY <1>2, Zenon DEF StateInv, RequestsOK
<1>9. RequestsOK(u)
  <2>1. \A i \in 1 .. Len(u.requests) :
          /\ u.requests[i].cmd \in 1 .. Len(u.cmds)
          /\ u.requests[i].what = "data"
               => u.cmds[u.requests[i].cmd].at \in {"moving", "done"}
    BY <1>3, <1>5, <1>7, <1>8
  <2>2. /\ \A i \in 1 .. Len(Reads(u)) : Reads(u)[i] \in 1 .. Len(u.requests)
        /\ \A i \in 1 .. Len(Writes(u)) :
             /\ Writes(u)[i] \in 1 .. Len(u.requests)
             /\ u.requests[Writes(u)[i]].what = "data"
    BY <1>5, <1>6, Zenon DEF StateInv, RequestsOK
  <2> QED BY <2>1, <2>2, Zenon DEF RequestsOK
<1>10. ListsThere(u)
  BY <1>2, <1>3, <1>5, <1>7 DEF StateInv, ListsThere
<1>11. \A i, c : Asks(u, i, c) <=> Asks(s, i, c)
  BY <1>5, <1>6 DEF Asks
<1>12. \A i \in 0 + 1 .. Len(Reads(u)) : ~Asks(u, i, n + 1)
  <2>1. ASSUME NEW i \in 0 + 1 .. Len(Reads(u)), Asks(u, i, n + 1)
        PROVE  FALSE
    <3>1. i \in 1 .. Len(Reads(s))
      BY <1>6
    <3>2. Reads(s)[i] \in 1 .. Len(s.requests)
      BY <3>1 DEF StateInv, RequestsOK
    <3>3. s.requests[Reads(s)[i]].cmd = n + 1
      BY <1>11, <2>1, Zenon DEF Asks
    <3> QED BY <1>7, <1>8, <3>2, <3>3
  <2> QED BY <2>1, Zenon
<1>13. FetchedOnce(u, 0)
  <2>1. ASSUME NEW i \in 0 + 1 .. Len(Reads(u)), NEW c \in 1 .. Len(u.cmds),
               Asks(u, i, c)
        PROVE  /\ u.cmds[c].at = "fetching"
               /\ \A j \in 0 + 1 .. Len(Reads(u)) : Asks(u, j, c) => i = j
    <3>1. c \in 1 .. n
      BY <1>3, <1>5, <1>7, <1>12, <2>1, Zenon
    <3>2. i \in 0 + 1 .. Len(Reads(s)) /\ Asks(s, i, c) /\ c \in 1 .. Len(s.cmds)
      BY <1>2, <1>6, <1>11, <2>1, <3>1, Zenon
    <3>3. /\ s.cmds[c].at = "fetching"
          /\ \A j \in 0 + 1 .. Len(Reads(s)) : Asks(s, j, c) => i = j
      BY <3>2 DEF StateInv, FetchedOnce
    <3> QED BY <1>3, <1>5, <1>6, <1>11, <3>1, <3>3, Zenon
  <2> QED BY <2>1, Zenon DEF FetchedOnce
<1>14. StateInv(u, 0, done)
  BY <1>5, <1>9, <1>10, <1>13 DEF StateInv
<1>15. Grows(s, u)
  BY <1>5, GrowsRefl, Zenon
<1>16. NoneAsked(u, 0, n + 1)
  BY <1>12, Zenon DEF NoneAsked
<1> QED BY <1>2, <1>3, <1>5, <1>14, <1>15, <1>16

LEMMA SubmitGoesOn ==
  ASSUME DMAInv, NEW r \in Transfers, Submit(r)
  PROVE  GoesOn
<1>1. StateInv(State, 0, readCompletion)
  BY DEF DMAInv
<1>2. PICK x : x = Command(r)
  OBVIOUS
<1>3. x \in CommandType /\ x.at = "parsed"
  <2>1. r \in TransferType
    BY DMAListsAssumption
  <2> QED BY <1>2, <2>1, NewCommand
<1>4. PICK u : u = [State EXCEPT !.cmds = Append(@, x)]
  BY Zenon
<1>5. /\ StateInv(u, 0, readCompletion) /\ Grows(State, u)
      /\ Len(u.cmds) = Len(State.cmds) + 1 /\ u.cmds[Len(u.cmds)] = x
      /\ Len(u.cmds) \in 1 .. Len(u.cmds)
      /\ NoneAsked(u, 0, Len(u.cmds))
  BY <1>1, <1>3, <1>4, SubmitKeeps
<1>6. PICK c : c = Len(u.cmds)
  BY Zenon
<1>7. PICK t : t = IF x.lists # <<>> THEN FetchList(u, c) ELSE u
  OBVIOUS
<1>8. c = Len(cmds) + 1
  BY <1>5, <1>6 DEF State
<1>9. Becomes(t)
  BY <1>2, <1>4, <1>5, <1>6, <1>7, <1>8 DEF Submit
<1>10. StateInv(t, 0, readCompletion) /\ Grows(u, t)
  <2>1. CASE x.lists # <<>>
    <3>1. PICK k : k = 0 /\ k \in {0, 1}
      OBVIOUS
    <3>2. u.cmds[c].at \notin {"moving", "done"}
      BY <1>3, <1>5, <1>6
    <3> QED BY <1>5, <1>6, <1>7, <2>1, <3>1, <3>2, FetchListKeeps
  <2>2. CASE x.lists = <<>>
    BY <1>5, <1>7, <2>2, GrowsRefl
  <2> QED BY <2>1, <2>2
<1>11. Grows(State, t)
  BY <1>1, <1>5, <1>10, GrowsTrans
<1> QED BY <1>9, <1>10, <1>11, GrowingGoesOn DEF Grows

LEMMA FirmwareGoesOn ==
  ASSUME DMAInv, NEW c \in DOMAIN cmds, Parse(c) \/ Begin(c)
  PROVE  GoesOn
<1>1. StateInv(State, 0, readCompletion)
  BY DEF DMAInv
<1>2. State.cmds = cmds /\ State.cmds \in Seq(CommandType)
  BY <1>1, StateFields DEF State
<1>3. c \in 1 .. Len(State.cmds)
  BY <1>2
<1>4. State.cmds[c].at \in {"fetched", "parsed"}
  BY <1>2 DEF Parse, Begin
<1>5. NoneAsked(State, 0, c)
  BY <1>1, <1>3, <1>4 DEF StateInv, FetchedOnce, NoneAsked
<1>6. PICK k : k = 0 /\ k \in {0, 1}
  OBVIOUS
<1>7. CASE Parse(c)
  <2>1. PICK t : t = ParseList(State, c)
    OBVIOUS
  <2>2. Becomes(t) /\ State.cmds[c].at = "fetched"
    BY <1>2, <1>7, <2>1 DEF Parse
  <2>3. State.cmds[c].lists # <<>> /\ State.cmds[c].at \notin {"moving", "done"}
    BY <1>1, <1>3, <2>2 DEF StateInv, ListsThere
  <2>4. StateInv(t, 0, readCompletion) /\ Grows(State, t)
    BY <1>1, <1>3, <1>5, <1>6, <2>1, <2>3, ParseListKeeps
  <2> QED BY <2>2, <2>4, GrowingGoesOn DEF Grows
<1>8. CASE Begin(c)
  <2>1. PICK t : t = Transfer(State, c)
    OBVIOUS
  <2>2. Becomes(t)
    BY <1>8, <2>1 DEF Begin
  <2>3. StateInv(t, 0, readCompletion) /\ Grows(State, t)
    BY <1>1, <1>3, <1>5, <1>6, <2>1, TransferKeeps
  <2> QED BY <2>2, <2>3, GrowingGoesOn DEF Grows
<1> QED BY <1>7, <1>8

-----------------------------------------------------------------------------
(* The steps of the FIFO.                                                  *)

LEMMA QueuesGoesOn ==
  ASSUME DMAInv, UNCHANGED <<cmds, requests, cores>>,
         WriteInv(writeQueue'), ReadInv(readQueue', readCompletion'),
         Unanswered(writeQueue', writeQueue'.insertPending)
           = Unanswered(writeQueue, writeQueue.insertPending),
         Unanswered(readQueue', readQueue'.transferPending)
           = Unanswered(readQueue, readQueue.transferPending)
  PROVE  GoesOn
<1>1. StateInv(State, 0, readCompletion)
  BY DEF DMAInv
<1>2. PICK t : t = State'
  OBVIOUS
<1>3. /\ t.read = readQueue' /\ t.write = writeQueue'
      /\ t.requests = State.requests /\ t.cmds = State.cmds
      /\ State.read = readQueue /\ State.write = writeQueue
  BY <1>2 DEF State
<1>4. t \in StateType
  <2>1. writeQueue' \in QueueType /\ readQueue' \in QueueType
    BY DEF WriteInv, ReadInv
  <2>2. requests \in Seq(RequestType) /\ cmds \in Seq(CommandType)
    BY <1>1, StateFields DEF State
  <2> QED BY <1>2, <2>1, <2>2 DEF State, StateType
<1>5. Reads(t) = Reads(State) /\ Writes(t) = Writes(State)
  BY <1>3 DEF Reads, Writes
<1>6. StateInv(t, 0, readCompletion')
  BY <1>1, <1>3, <1>4, <1>5, QueuesGoOn
<1>7. DMAInv'
  BY <1>2, <1>6 DEF DMAInv
<1>8. UNCHANGED Pending
  BY DEF Pending
<1> QED BY <1>7, <1>8 DEF GoesOn

LEMMA FIFOEventGoesOn ==
  ASSUME DMAInv, FIFOEvent
  PROVE  GoesOn
<1>1. WriteInv(writeQueue) /\ ReadInv(readQueue, readCompletion)
  BY DEF DMAInv, StateInv, State
<1>2. UNCHANGED <<cmds, requests, cores>>
  BY DEF FIFOEvent
<1> DEFINE SameWrites == Unanswered(writeQueue', writeQueue'.insertPending)
                           = Unanswered(writeQueue, writeQueue.insertPending)
           SameReads == Unanswered(readQueue', readQueue'.transferPending)
                           = Unanswered(readQueue, readQueue.transferPending)
<1>3. CASE UNCHANGED <<readQueue, readCompletion>> /\ WriteInv(writeQueue') /\ SameWrites
  BY <1>1, <1>2, <1>3, QueuesGoesOn
<1>4. CASE UNCHANGED writeQueue /\ ReadInv(readQueue', readCompletion') /\ SameReads
  BY <1>1, <1>2, <1>4, QueuesGoesOn
<1>5. CASE InsertWriteDone
  <2>1. WriteInv(writeQueue') /\ SameWrites
    BY <1>1, <1>5, InsertWriteDoneLemma DEF InsertWriteDone
  <2> QED BY <1>3, <1>5, <2>1 DEF InsertWriteDone
<1>6. CASE BeginTransferWrite
  <2>1. WriteInv(writeQueue') /\ SameWrites
    BY <1>1, <1>6, BeginTransferWriteLemma DEF BeginTransferWrite
  <2> QED BY <1>3, <1>6, <2>1 DEF BeginTransferWrite
<1>7. CASE TransferWriteDone
  <2>1. WriteInv(writeQueue') /\ SameWrites
    <3>1. PICK q, t : q = writeQueue /\ t = writeQueue'
      OBVIOUS
    <3>2. WriteInv(q) /\ q.dma
      BY <1>1, <1>7, <3>1 DEF TransferWriteDone
    <3>3. t = WriteTransferred(q)
      BY <1>7, <3>1 DEF TransferWriteDone, WriteTransferred
    <3>4. /\ WriteInv(t)
          /\ Unanswered(t, t.insertPending) = Unanswered(q, q.insertPending)
      BY ONLY <3>2, <3>3, TransferWriteDoneLemma
    <3> QED BY <3>1, <3>4
  <2> QED BY <1>3, <1>7, <2>1 DEF TransferWriteDone
<1>8. CASE BeginInsertRead
  <2>1. ReadInv(readQueue', readCompletion) /\ SameReads
    BY <1>1, <1>8, BeginInsertReadLemma DEF BeginInsertRead
  <2>2. readCompletion' = readCompletion
    BY <1>8 DEF BeginInsertRead
  <2> QED BY <1>4, <1>8, <2>1, <2>2 DEF BeginInsertRead
<1>9. CASE TransferReadDone
  <2>1. PICK first : first = (Head(readQueue.wait).id \notin readCompletion)
    OBVIOUS
  <2>2. PICK then : then = IF first
                           THEN readCompletion \union {Head(readQueue.wait).id}
                           ELSE readCompletion \ {Head(readQueue.wait).id}
    BY Zenon
  <2>3. /\ readCompletion' = then /\ readQueue.dma /\ UNCHANGED writeQueue
        /\ readQueue' = transferRead(ReadTransferred(readQueue, first))
    BY <1>9, <2>1, <2>2, Zenon DEF TransferReadDone, ReadTransferred
  <2>4. ReadInv(readQueue', then) /\ SameReads
    <3>1. PICK q, t, done : q = readQueue /\ t = readQueue' /\ done = readCompletion
      OBVIOUS
    <3>2. ReadInv(q, done) /\ q.dma /\ first = (Head(q.wait).id \notin done)
      BY <1>1, <2>1, <2>3, <3>1
    <3>3. t = transferRead(ReadTransferred(q, first))
      BY <2>3, <3>1
    <3>4. /\ ReadInv(t, IF first THEN done \union {Head(q.wait).id}
                        ELSE done \ {Head(q.wait).id})
          /\ Unanswered(t, t.transferPending) = Unanswered(q, q.transferPending)
      BY ONLY <3>2, <3>3, TransferReadDoneLemma
    <3> QED BY <2>2, <3>1, <3>4
  <2> QED BY <1>4, <2>3, <2>4
<1>10. CASE InsertReadDone
  <2>1. PICK first : first = (Head(readQueue.transfer).id \notin readCompletion)
    OBVIOUS
  <2>2. PICK then : then = IF first
                           THEN readCompletion \union {Head(readQueue.transfer).id}
                           ELSE readCompletion \ {Head(readQueue.transfer).id}
    BY Zenon
  <2>3. /\ readCompletion' = then /\ readQueue.insertDone /\ UNCHANGED writeQueue
        /\ readQueue' = ReadInserted(readQueue, first)
    BY <1>10, <2>1, <2>2, Zenon DEF InsertReadDone, ReadInserted
  <2>4. ReadInv(readQueue', then) /\ SameReads
    <3>1. PICK q, t, done : q = readQueue /\ t = readQueue' /\ done = readCompletion
      OBVIOUS
    <3>2. ReadInv(q, done) /\ q.insertDone /\ first = (Head(q.transfer).id \notin done)
      BY <1>1, <2>1, <2>3, <3>1
    <3>3. t = ReadInserted(q, first)
      BY <2>3, <3>1
    <3>4. /\ ReadInv(t, IF first THEN done \union {Head(q.transfer).id}
                        ELSE done \ {Head(q.transfer).id})
          /\ Unanswered(t, t.transferPending) = Unanswered(q, q.transferPending)
      BY ONLY <3>2, <3>3, InsertReadDoneLemma
    <3> QED BY <2>2, <3>1, <3>4
  <2> QED BY <1>4, <2>3, <2>4
<1> QED BY <1>5, <1>6, <1>7, <1>8, <1>9, <1>10 DEF FIFOEvent, FIFOStep

(***************************************************************************)
(* A piece is finished: the callback, and then the piece's end.            *)
(***************************************************************************)
Answered(a, b) == a # <<>> /\ Longer(Tail(a), b)

LEMMA FirstAnswered ==
  ASSUME NEW a \in Seq(Nat), NEW b \in Seq(Nat), NEW r \in Nat,
         1 <= Len(a), NEW c, c = <<r>> \o b, Longer(a, c)
  PROVE  Answered(a, b) /\ r = a[1]
<1>1. PICK x : x = Tail(a)
  BY Zenon
<1>2. /\ a # <<>> /\ Len(a) \in Nat /\ x \in Seq(Nat) /\ Len(x) = Len(a) - 1
      /\ \A i \in 1 .. Len(x) : x[i] = a[i + 1]
  BY <1>1, HeadAndTail
<1>3. /\ Len(b) \in Nat /\ Len(c) = Len(b) + 1 /\ c[1] = r
      /\ \A i \in 1 .. Len(b) : c[i + 1] = b[i]
  BY WithoutFirst
<1>4. Len(a) <= Len(c) /\ \A i \in 1 .. Len(a) : c[i] = a[i]
  BY Zenon DEF Longer
<1>5. Len(x) <= Len(b) /\ \A i \in 1 .. Len(x) : i \in 1 .. Len(b) /\ i + 1 \in 1 .. Len(a)
  BY <1>2, <1>3, <1>4
<1>6. \A i \in 1 .. Len(x) : b[i] = x[i]
  BY <1>2, <1>3, <1>4, <1>5, Zenon
<1>7. r = a[1]
  BY <1>2, <1>3, <1>4
<1> QED BY <1>1, <1>2, <1>5, <1>6, <1>7 DEF Answered, Longer

WithWrite(s, q) == [s EXCEPT !.write = q]
WithRead(s, q)  == [s EXCEPT !.read = q]

LEMMA WithQueue ==
  ASSUME NEW s \in StateType, NEW q \in QueueType
  PROVE  /\ WithWrite(s, q) \in StateType /\ WithWrite(s, q).write = q
         /\ WithWrite(s, q).read = s.read /\ WithWrite(s, q).cmds = s.cmds
         /\ WithWrite(s, q).requests = s.requests
         /\ WithRead(s, q) \in StateType /\ WithRead(s, q).read = q
         /\ WithRead(s, q).write = s.write /\ WithRead(s, q).cmds = s.cmds
         /\ WithRead(s, q).requests = s.requests
BY DEF StateType, WithWrite, WithRead

NotFinishing(q) == [q EXCEPT !.submitCompletion = FALSE]

LEMMA FinishWriteKeeps ==
  ASSUME NEW s, NEW done, StateInv(s, 0, done), s.write.submitCompletion,
         NEW q, q = NotFinishing(s.write),
         NEW u, u = Callback(WithWrite(s, q), Head(q.transfer)),
         NEW t, t = WithWrite(u, transferWriteDoneNext(u.write))
  PROVE  /\ StateInv(t, 0, done) /\ Longer(Reads(s), Reads(t))
         /\ Longer(Writes(s), Writes(t)) \/ Answered(Writes(s), Writes(t))
<1>1. /\ s \in StateType /\ s.write \in QueueType /\ Writes(s) \in Seq(Nat)
      /\ Len(Writes(s)) \in Nat
      /\ WriteInv(s.write)
  BY StateFields, Zenon DEF StateInv
<1>2. /\ q \in QueueType /\ q.wait = s.write.wait /\ q.transfer = s.write.transfer
      /\ q.insertPending = s.write.insertPending
      /\ q.insertDone = s.write.insertDone
      /\ q.transferPending = s.write.transferPending
      /\ q.beginTransfer = s.write.beginTransfer
      /\ q.dma = s.write.dma /\ ~q.submitCompletion
  BY <1>1, Zenon DEF QueueType, NotFinishing
<1>3. WriteInv(q) /\ q.transferPending /\ ~q.dma /\ q.transfer # <<>>
  BY <1>1, <1>2 DEF WriteInv, HeadFits, BeginHasPiece
<1>4. PICK a : a = WithWrite(s, q)
  OBVIOUS
<1>5. /\ a \in StateType /\ a.write = q /\ a.read = s.read
      /\ a.cmds = s.cmds /\ a.requests = s.requests
  <2>1. s \in StateType /\ q \in QueueType
    BY <1>1, <1>2
  <2> QED BY ONLY <1>4, <2>1, WithQueue
<1>6. Reads(a) = Reads(s) /\ Writes(a) = Writes(s)
  BY <1>2, <1>5 DEF Reads, Writes, Unanswered, Waiting
<1>7. StateInv(a, 0, done)
  <2>1. ReadInv(s.read, done)
    BY DEF StateInv
  <2> QED BY <1>3, <1>5, <1>6, <2>1, QueuesGoOn
<1>8. PICK p : p = q.transfer[1]
  OBVIOUS
<1>9. Head(q.transfer) = p
  BY <1>2, <1>3, <1>8, QueueFields, HeadAndTail
<1>10. u = Callback(a, p)
  BY <1>4, <1>9
<1>11. PICK v : v = transferWriteDoneNext(q)
  OBVIOUS
<1>12. /\ p \in PieceType
       /\ Unanswered(v, v.insertPending) \in Seq(Nat)
       /\ p.last => Writes(a) = <<p.req>> \o Unanswered(v, v.insertPending)
  BY <1>2, <1>3, <1>5, <1>8, <1>11, WriteFinishedLemma, Zenon DEF Writes
<1>13. p.last => 1 <= Len(Writes(a)) /\ Writes(a)[1] = p.req
  BY <1>12, WithoutFirst, PieceFields
<1>14. /\ StateInv(u, 0, done) /\ Grows(a, u) /\ (~p.last => u = a)
  <2>1. CASE p.last
    BY <1>7, <1>10, <1>12, <1>13, <2>1, WriteCallbackKeeps
  <2>2. CASE ~p.last
    <3>1. u = a
      BY <1>10, <2>2, NotTheLast
    <3> QED BY <1>7, <2>2, <3>1, GrowsRefl
  <2> QED BY <2>1, <2>2
<1>15. PICK w, x : w = u.write /\ x = transferWriteDoneNext(w)
  OBVIOUS
<1>16. /\ WriteInv(w) /\ w.transferPending /\ ~w.dma /\ ~w.submitCompletion
       /\ w.transfer[1] = p
  BY <1>2, <1>3, <1>5, <1>8, <1>14, <1>15
     DEF StateInv, Grows, WriteKept, FrontKept
<1>17. /\ WriteInv(x) /\ Unanswered(x, x.insertPending) \in Seq(Nat)
       /\ Unanswered(w, w.insertPending) =
            IF p.last THEN <<p.req>> \o Unanswered(x, x.insertPending)
            ELSE Unanswered(x, x.insertPending)
  BY <1>15, <1>16, WriteFinishedLemma
<1>18. /\ u \in StateType /\ Writes(u) \in Seq(Nat) /\ p.req \in Nat
       /\ x \in QueueType
  BY <1>12, <1>14, <1>17, StateFields, PieceFields DEF WriteInv
<1>19. /\ t \in StateType /\ t.write = x /\ t.read = u.read
       /\ t.cmds = u.cmds /\ t.requests = u.requests
  <2>1. t = WithWrite(u, x)
    BY <1>15
  <2>2. u \in StateType /\ x \in QueueType
    BY <1>18
  <2> QED BY ONLY <2>1, <2>2, WithQueue
<1>20. /\ Reads(t) = Reads(u) /\ Writes(t) \in Seq(Nat)
       /\ p.last => Writes(u) = <<p.req>> \o Writes(t)
       /\ ~p.last => Writes(u) = Writes(t)
  <2>1. Writes(t) = Unanswered(x, x.insertPending)
        /\ Writes(u) = Unanswered(w, w.insertPending)
    BY <1>15, <1>19 DEF Writes
  <2>2. Reads(t) = Reads(u)
    BY <1>19 DEF Reads
  <2> QED BY <1>17, <2>1, <2>2, Zenon
<1>21. Longer(Reads(s), Reads(t)) /\ Longer(Writes(s), Writes(u))
  BY <1>6, <1>14, <1>20, Zenon DEF Grows
<1>22. CASE p.last
  <2>1. StateInv(t, 0, done)
    <3>1. PICK r : r = p.req
      OBVIOUS
    <3>2. r \in Nat /\ Writes(u) = <<r>> \o Writes(t)
      BY <1>18, <1>20, <1>22, <3>1, Zenon
    <3>3. StateInv(u, 0, done) /\ WriteInv(t.write) /\ Writes(t) \in Seq(Nat)
      BY <1>14, <1>17, <1>19, <1>20, Zenon
    <3> QED BY ONLY <1>19, <3>2, <3>3, AnsweredWrite, Zenon
  <2>2. 1 <= Len(Writes(s)) /\ Writes(u) = <<p.req>> \o Writes(t)
    BY <1>6, <1>13, <1>20, <1>22, Zenon
  <2>3. Answered(Writes(s), Writes(t))
    <3>1. PICK A, B, C, r :
            A = Writes(s) /\ B = Writes(t) /\ C = Writes(u) /\ r = p.req
      OBVIOUS
    <3>2. /\ A \in Seq(Nat) /\ B \in Seq(Nat) /\ r \in Nat /\ 1 <= Len(A)
          /\ C = <<r>> \o B /\ Longer(A, C)
      BY <1>1, <1>18, <1>20, <1>21, <2>2, <3>1, Zenon
    <3>3. Answered(A, B)
      BY ONLY <3>2, FirstAnswered, Zenon
    <3> QED BY <3>1, <3>3
  <2> QED BY <1>21, <2>1, <2>3
<1>23. CASE ~p.last
  <2>1. Writes(t) = Writes(u)
    BY <1>20, <1>23
  <2>2. ReadInv(u.read, done)
    BY <1>14 DEF StateInv
  <2>3. StateInv(t, 0, done)
    BY <1>14, <1>17, <1>19, <1>20, <2>1, <2>2, QueuesGoOn, Zenon
  <2> QED BY <1>21, <2>1, <2>3
<1> QED BY <1>22, <1>23

LEMMA FinishReadKeeps ==
  ASSUME NEW s, NEW done, StateInv(s, 0, done), s.read.submitCompletion,
         NEW q, q = NotFinishing(s.read),
         NEW u, u = Callback(WithRead(s, q), Head(q.transfer)),
         NEW t, t = WithRead(u, insertReadDoneNext(u.read))
  PROVE  /\ StateInv(t, 0, done) /\ Longer(Writes(s), Writes(t))
         /\ Longer(Reads(s), Reads(t)) \/ Answered(Reads(s), Reads(t))
<1>1. /\ s \in StateType /\ s.read \in QueueType /\ Reads(s) \in Seq(Nat)
      /\ Len(Reads(s)) \in Nat
      /\ ReadInv(s.read, done)
  BY StateFields, Zenon DEF StateInv
<1>2. /\ q \in QueueType /\ q.wait = s.read.wait /\ q.transfer = s.read.transfer
      /\ q.insertPending = s.read.insertPending
      /\ q.insertDone = s.read.insertDone
      /\ q.transferPending = s.read.transferPending
      /\ q.beginTransfer = s.read.beginTransfer
      /\ q.counter = s.read.counter
      /\ q.dma = s.read.dma /\ ~q.submitCompletion
  BY <1>1, Zenon DEF QueueType, NotFinishing
<1>3. /\ ReadInv(q, done) /\ q.transfer # <<>>
      /\ InsertedRead(q, 1) /\ Transferred(q, 1)
  <2>1. /\ \A i : InsertedRead(q, i) <=> InsertedRead(s.read, i)
        /\ \A i : Transferred(q, i) <=> Transferred(s.read, i)
    BY <1>2 DEF InsertedRead, Transferred
  <2>2. /\ InsertedRead(q, 1) /\ Transferred(q, 1) /\ q.transfer # <<>>
    BY <1>1, <1>2, <2>1 DEF ReadInv, InsertedRead
  <2>3. Halfway(q) = Halfway(s.read)
    BY <1>2, <2>1 DEF Halfway
  <2>4. Numbered(q)
    BY <1>1, <1>2 DEF ReadInv, Numbered
  <2>5. ReadInv(q, done)
    BY <1>1, <1>2, <2>2, <2>3, <2>4 DEF ReadInv, HeadFits, BeginHasPiece
  <2> QED BY <2>2, <2>5
<1>4. PICK a : a = WithRead(s, q)
  OBVIOUS
<1>5. /\ a \in StateType /\ a.read = q /\ a.write = s.write
      /\ a.cmds = s.cmds /\ a.requests = s.requests
  <2>1. s \in StateType /\ q \in QueueType
    BY <1>1, <1>2
  <2> QED BY ONLY <1>4, <2>1, WithQueue
<1>6. Reads(a) = Reads(s) /\ Writes(a) = Writes(s)
  BY <1>2, <1>5 DEF Reads, Writes, Unanswered, Waiting
<1>7. StateInv(a, 0, done)
  <2>1. WriteInv(s.write)
    BY DEF StateInv
  <2> QED BY <1>3, <1>5, <1>6, <2>1, QueuesGoOn
<1>8. PICK p : p = q.transfer[1]
  OBVIOUS
<1>9. Head(q.transfer) = p
  BY <1>2, <1>3, <1>8, QueueFields, HeadAndTail
<1>10. u = Callback(a, p)
  BY <1>4, <1>9
<1>11. PICK v : v = insertReadDoneNext(q)
  OBVIOUS
<1>12. /\ p \in PieceType
       /\ Unanswered(v, v.transferPending) \in Seq(Nat)
       /\ p.last => Reads(a) = <<p.req>> \o Unanswered(v, v.transferPending)
  BY <1>2, <1>3, <1>5, <1>8, <1>11, ReadFinishedLemma, Zenon DEF Reads
<1>13. p.last => 1 <= Len(Reads(a)) /\ Reads(a)[1] = p.req
  BY <1>12, WithoutFirst, PieceFields
<1>14. PICK k : k = (IF p.last THEN 1 ELSE 0) /\ k \in {0, 1}
  OBVIOUS
<1>15. /\ StateInv(u, k, done) /\ Grows(a, u)
       /\ ~p.last => u = a /\ StateInv(u, 0, done)
       /\ p.last => StateInv(u, 1, done)
  <2>1. CASE p.last
    BY <1>7, <1>10, <1>12, <1>13, <1>14, <2>1, ReadCallbackKeeps
  <2>2. CASE ~p.last
    <3>1. u = a
      BY <1>10, <2>2, NotTheLast
    <3> QED BY <1>7, <1>14, <2>2, <3>1, GrowsRefl
  <2> QED BY <2>1, <2>2
<1>16. PICK w, x : w = u.read /\ x = insertReadDoneNext(w)
  OBVIOUS
<1>17. /\ ReadInv(w, done) /\ ~w.submitCompletion /\ w.transfer # <<>>
       /\ InsertedRead(w, 1) /\ w.transfer[1] = p
  BY <1>2, <1>3, <1>5, <1>8, <1>15, <1>16, Zenon
     DEF StateInv, Grows, ReadKept, FrontKept, InsertedRead
<1>18. Transferred(w, 1)
  <2>1. /\ 1 \in 1 .. Len(q.transfer) /\ 1 \in 1 .. Len(w.transfer)
        /\ w \in QueueType
    BY <1>2, <1>3, <1>17, QueueFields DEF ReadInv
  <2>2. p.id \in done <=> HalfDone(q, 1)
    BY <1>2, <1>3, <1>8, <2>1, HalfNoted DEF ReadInv
  <2>3. p.id \in done <=> HalfDone(w, 1)
    BY <1>17, <2>1, HalfNoted DEF ReadInv
  <2> QED BY <1>3, <1>17, <2>2, <2>3 DEF HalfDone
<1>19. /\ ReadInv(x, done) /\ Unanswered(x, x.transferPending) \in Seq(Nat)
       /\ Unanswered(w, w.transferPending) =
            IF p.last THEN <<p.req>> \o Unanswered(x, x.transferPending)
            ELSE Unanswered(x, x.transferPending)
  BY <1>16, <1>17, <1>18, ReadFinishedLemma
<1>20. /\ u \in StateType /\ Reads(u) \in Seq(Nat) /\ p.req \in Nat
       /\ x \in QueueType
  BY <1>12, <1>15, <1>19, StateFields, PieceFields DEF ReadInv
<1>21. /\ t \in StateType /\ t.read = x /\ t.write = u.write
       /\ t.cmds = u.cmds /\ t.requests = u.requests
  <2>1. t = WithRead(u, x)
    BY <1>16
  <2>2. u \in StateType /\ x \in QueueType
    BY <1>20
  <2> QED BY ONLY <2>1, <2>2, WithQueue
<1>22. /\ Writes(t) = Writes(u) /\ Reads(t) \in Seq(Nat)
       /\ p.last => Reads(u) = <<p.req>> \o Reads(t)
       /\ ~p.last => Reads(u) = Reads(t)
  <2>1. Reads(t) = Unanswered(x, x.transferPending)
        /\ Reads(u) = Unanswered(w, w.transferPending)
    BY <1>16, <1>21 DEF Reads
  <2>2. Writes(t) = Writes(u)
    BY <1>21 DEF Writes
  <2> QED BY <1>19, <2>1, <2>2, Zenon
<1>23. Longer(Writes(s), Writes(t)) /\ Longer(Reads(s), Reads(u))
  BY <1>6, <1>15, <1>22, Zenon DEF Grows
<1>24. CASE p.last
  <2>1. StateInv(t, 0, done)
    <3>1. PICK r : r = p.req
      OBVIOUS
    <3>2. r \in Nat /\ Reads(u) = <<r>> \o Reads(t)
      BY <1>20, <1>22, <1>24, <3>1, Zenon
    <3>3. StateInv(u, 1, done) /\ ReadInv(t.read, done) /\ Reads(t) \in Seq(Nat)
      BY <1>15, <1>19, <1>21, <1>22, <1>24, Zenon
    <3> QED BY ONLY <1>21, <3>2, <3>3, AnsweredRead, Zenon
  <2>2. 1 <= Len(Reads(s)) /\ Reads(u) = <<p.req>> \o Reads(t)
    BY <1>6, <1>13, <1>22, <1>24, Zenon
  <2>3. Answered(Reads(s), Reads(t))
    <3>1. PICK A, B, C, r :
            A = Reads(s) /\ B = Reads(t) /\ C = Reads(u) /\ r = p.req
      OBVIOUS
    <3>2. /\ A \in Seq(Nat) /\ B \in Seq(Nat) /\ r \in Nat /\ 1 <= Len(A)
          /\ C = <<r>> \o B /\ Longer(A, C)
      BY <1>1, <1>20, <1>22, <1>23, <2>2, <3>1, Zenon
    <3>3. Answered(A, B)
      BY ONLY <3>2, FirstAnswered, Zenon
    <3> QED BY <3>1, <3>3
  <2> QED BY <1>23, <2>1, <2>3
<1>25. CASE ~p.last
  <2>1. Reads(t) = Reads(u)
    BY <1>22, <1>25
  <2>2. WriteInv(t.write)
    BY <1>15, <1>21 DEF StateInv
  <2>3. StateInv(t, 0, done)
    BY <1>15, <1>19, <1>21, <1>22, <1>25, <2>1, <2>2, QueuesGoOn, Zenon
  <2> QED BY <1>23, <2>1, <2>3
<1> QED BY <1>24, <1>25

LEMMA StateIs ==
  /\ State.read = readQueue /\ State.write = writeQueue
  /\ State.requests = requests /\ State.cmds = cmds
BY DEF State

LEMMA FinishWriteGoesOn ==
  ASSUME DMAInv, FinishWrite
  PROVE  GoesOn
<1>1. PICK s, done : s = State /\ done = readCompletion
  OBVIOUS
<1>2. PICK q : q = NotFinishing(s.write)
  OBVIOUS
<1>3. PICK u : u = Callback(WithWrite(s, q), Head(q.transfer))
  OBVIOUS
<1>4. PICK t : t = WithWrite(u, transferWriteDoneNext(u.write))
  OBVIOUS
<1>5. StateInv(s, 0, done) /\ s.write.submitCompletion
  BY <1>1, StateIs DEF DMAInv, FinishWrite, WriteFinishes
<1>6. Becomes(t)
  BY <1>1, <1>2, <1>3, <1>4, StateIs, Zenon
     DEF FinishWrite, NotFinishing, WithWrite
<1>7. /\ StateInv(t, 0, done) /\ Longer(Reads(s), Reads(t))
      /\ Longer(Writes(s), Writes(t)) \/ Answered(Writes(s), Writes(t))
  BY ONLY <1>2, <1>3, <1>4, <1>5, FinishWriteKeeps, Zenon
<1>8. CASE Longer(Writes(s), Writes(t))
  BY <1>1, <1>6, <1>7, <1>8, GrowingGoesOn
<1>9. CASE Answered(Writes(s), Writes(t))
  <2>1. t \in StateType
    BY <1>7, StateFields
  <2>2. State' = t /\ UNCHANGED <<readCompletion, cores>>
    BY <1>6, <2>1, BecomesState
  <2>3. DMAInv'
    BY <1>1, <1>7, <2>2 DEF DMAInv
  <2>4. /\ Reads(State) \in Seq(Nat) /\ Writes(State) \in Seq(Nat)
        /\ Reads(State') \in Seq(Nat) /\ Writes(State') \in Seq(Nat)
    BY <1>1, <1>5, <1>7, <2>2, StateFields
  <2>5. PICK d : d = "write" /\ d \in {"read", "write"}
    OBVIOUS
  <2>6. Pending[d] # <<>>
    BY <1>1, <1>9, <2>5, PendingFields DEF Answered
  <2>7. /\ d # "read"
        /\ Longer(IF d = "read" THEN Tail(Reads(State)) ELSE Reads(State), Reads(State'))
        /\ Longer(IF d = "write" THEN Tail(Writes(State)) ELSE Writes(State), Writes(State'))
    BY <1>1, <1>7, <1>9, <2>2, <2>5 DEF Answered
  <2>8. Channel!Next
    BY <2>4, <2>5, <2>6, <2>7, AnswerAndMore
  <2> QED BY <2>3, <2>8 DEF GoesOn
<1> QED BY <1>7, <1>8, <1>9

LEMMA FinishReadGoesOn ==
  ASSUME DMAInv, FinishRead
  PROVE  GoesOn
<1>1. PICK s, done : s = State /\ done = readCompletion
  OBVIOUS
<1>2. PICK q : q = NotFinishing(s.read)
  OBVIOUS
<1>3. PICK u : u = Callback(WithRead(s, q), Head(q.transfer))
  OBVIOUS
<1>4. PICK t : t = WithRead(u, insertReadDoneNext(u.read))
  OBVIOUS
<1>5. StateInv(s, 0, done) /\ s.read.submitCompletion
  BY <1>1, StateIs DEF DMAInv, FinishRead, ReadFinishes
<1>6. Becomes(t)
  BY <1>1, <1>2, <1>3, <1>4, StateIs, Zenon
     DEF FinishRead, NotFinishing, WithRead
<1>7. /\ StateInv(t, 0, done) /\ Longer(Writes(s), Writes(t))
      /\ Longer(Reads(s), Reads(t)) \/ Answered(Reads(s), Reads(t))
  BY ONLY <1>2, <1>3, <1>4, <1>5, FinishReadKeeps, Zenon
<1>8. CASE Longer(Reads(s), Reads(t))
  BY <1>1, <1>6, <1>7, <1>8, GrowingGoesOn
<1>9. CASE Answered(Reads(s), Reads(t))
  <2>1. t \in StateType
    BY <1>7, StateFields
  <2>2. State' = t /\ UNCHANGED <<readCompletion, cores>>
    BY <1>6, <2>1, BecomesState
  <2>3. DMAInv'
    BY <1>1, <1>7, <2>2 DEF DMAInv
  <2>4. /\ Reads(State) \in Seq(Nat) /\ Writes(State) \in Seq(Nat)
        /\ Reads(State') \in Seq(Nat) /\ Writes(State') \in Seq(Nat)
    BY <1>1, <1>5, <1>7, <2>2, StateFields
  <2>5. PICK d : d = "read" /\ d \in {"read", "write"}
    OBVIOUS
  <2>6. Pending[d] # <<>>
    BY <1>1, <1>9, <2>5, PendingFields DEF Answered
  <2>7. /\ d # "write"
        /\ Longer(IF d = "read" THEN Tail(Reads(State)) ELSE Reads(State), Reads(State'))
        /\ Longer(IF d = "write" THEN Tail(Writes(State)) ELSE Writes(State), Writes(State'))
    BY <1>1, <1>7, <1>9, <2>2, <2>5 DEF Answered
  <2>8. Channel!Next
    BY <2>4, <2>5, <2>6, <2>7, AnswerAndMore
  <2> QED BY <2>3, <2>8 DEF GoesOn
<1> QED BY <1>7, <1>8, <1>9

-----------------------------------------------------------------------------
(***************************************************************************)
(* The theorem.                                                            *)
(***************************************************************************)
LEMMA NothingPending ==
  ASSUME Init
  PROVE  DMAInv /\ Channel!Init
<1>1. PICK e, o : e = <<>> /\ o = 0
  OBVIOUS
<1>2. /\ e \in Seq(PieceType) /\ o \in Nat /\ o \in Int /\ e \in Seq(RequestType)
      /\ e \in Seq(CommandType) /\ Len(e) = 0
  BY <1>1
<1>3. PICK q : q = EmptyQueue
  OBVIOUS
<1>4. /\ q \in QueueType /\ q.wait = e /\ q.transfer = e
      /\ ~q.insertPending /\ ~q.transferPending /\ ~q.insertDone
      /\ ~q.beginTransfer /\ ~q.submitCompletion /\ ~q.dma
  <2>1. q = [wait |-> e, transfer |-> e, usage |-> o, counter |-> o,
             insertPending |-> FALSE, transferPending |-> FALSE,
             insertDone |-> FALSE, beginTransfer |-> FALSE,
             submitCompletion |-> FALSE, dma |-> FALSE]
    BY <1>1, <1>3 DEF EmptyQueue
  <2> QED BY <1>2, <2>1 DEF QueueType
<1>5. PICK s : s = State
  OBVIOUS
<1>6. /\ s.write = q /\ s.read = q /\ s.requests = e /\ s.cmds = e
      /\ readCompletion = {} /\ cores \in BOOLEAN /\ s \in StateType
  BY <1>1, <1>2, <1>3, <1>4, <1>5 DEF Init, FIFOInit, State, StateType
<1>7. WriteInv(q)
  BY <1>4 DEF WriteInv, BeginHasPiece
<1>8. ReadInv(q, {})
  <2>1. Numbered(q) /\ Halfway(q) = {}
    BY <1>2, <1>4 DEF Numbered, Halfway
  <2> QED BY <1>4, <2>1 DEF ReadInv, BeginHasPiece
<1>9. Reads(s) = <<>> /\ Writes(s) = <<>>
  <2>1. e \o e = e /\ Answers(e) = <<>>
    BY <1>1, <1>2, AnswersLemma, ConcatEmptySeq, Zenon
  <2>2. Unanswered(q, q.transferPending) = <<>>
    BY <1>4, <2>1, Zenon DEF Unanswered, Waiting
  <2>3. Unanswered(q, q.insertPending) = <<>>
    BY <1>4, <2>1, Zenon DEF Unanswered, Waiting
  <2> QED BY <1>6, <2>2, <2>3 DEF Reads, Writes
<1>10. RequestsOK(s) /\ ListsThere(s) /\ FetchedOnce(s, 0)
  BY <1>1, <1>2, <1>6, <1>9 DEF RequestsOK, ListsThere, FetchedOnce
<1>11. DMAInv
  BY <1>5, <1>6, <1>7, <1>8, <1>10 DEF DMAInv, StateInv
<1>12. Channel!Init
  BY <1>5, <1>9, PendingFields, PendingIs DEF Pending
<1> QED BY <1>11, <1>12

LEMMA EveryStepGoesOn ==
  ASSUME DMAInv, [Next]_vars
  PROVE  GoesOn
<1>1. CASE \E t \in Transfers : Submit(t)
  BY <1>1, SubmitGoesOn
<1>2. CASE Firmware
  BY <1>2, FirmwareGoesOn DEF Firmware
<1>3. CASE FIFOEvent
  BY <1>3, FIFOEventGoesOn
<1>4. CASE FinishWrite
  BY <1>4, FinishWriteGoesOn
<1>5. CASE FinishRead
  BY <1>5, FinishReadGoesOn
<1>6. CASE UNCHANGED vars
  BY <1>6 DEF GoesOn, DMAInv, State, Pending, vars, fifoVars
<1> QED BY <1>1, <1>2, <1>3, <1>4, <1>5, <1>6 DEF Next

(***************************************************************************)
(* The FIFO under the firmware keeps the promise of a DMA interface about  *)
(* what may happen (the part of ImplementsChannel without its fairness):   *)
(* at every step the first request that waits is answered, more requests   *)
(* are made, or nothing is seen, in each direction.                        *)
(***************************************************************************)
THEOREM RequestsAnsweredInOrder ==
  Spec => Channel!Safety
<1>1. Init => DMAInv /\ Channel!Init
  BY NothingPending
<1>2. DMAInv /\ [Next]_vars => DMAInv' /\ [Channel!Next]_Pending
  BY EveryStepGoesOn DEF GoesOn
<1>3. Spec => Channel!Init /\ [][Channel!Next]_Pending
  BY <1>1, <1>2, PTL DEF Spec
<1> QED BY <1>3 DEF Channel!Safety

-----------------------------------------------------------------------------
(***************************************************************************)
(* The pieces of a queue that are not finished, and how many of them have  *)
(* crossed the bus: these are the first ones.                              *)
(***************************************************************************)
Pieces(q, started) == q.transfer \o Waiting(q, started)

PiecesW(q) == Pieces(q, q.insertPending)
PiecesR(q) == Pieces(q, q.transferPending)

CrossedW(q) == IF q.transferPending /\ ~q.dma THEN 1 ELSE 0
CrossedR(q) == IF q.transferPending THEN Len(q.transfer) - 1 ELSE Len(q.transfer)

(***************************************************************************)
(* The requests of the pieces behind the first n.                          *)
(***************************************************************************)
Behind(a, n) == {a[i].req : i \in n + 1 .. Len(a)}

Requested(s) == Behind(PiecesW(s.write), 0) \union Behind(PiecesR(s.read), 0)

(***************************************************************************)
(* The bytes of a request that crossed the bus: requests made in the step  *)
(* are not in m yet.                                                       *)
(***************************************************************************)
At(m, r) == IF r <= Len(m) THEN m[r] ELSE 0

DirectionOf(s, r) ==
  IF s.requests[r].what = "list" THEN "read"
  ELSE s.cmds[s.requests[r].cmd].transfer.dir

(***************************************************************************)
(* The pieces of a queue cut its requests, in order, without a gap; n of   *)
(* them have crossed the bus.                                              *)
(***************************************************************************)
Linked(a) ==
  \A i \in 1 .. Len(a) : ~a[i].last =>
    /\ i < Len(a) /\ a[i + 1].req = a[i].req
    /\ a[i + 1].addr = a[i].addr + a[i].size

Ascending(a) ==
  \A i, j \in 1 .. Len(a) : i < j =>
    a[i].req <= a[j].req /\ (a[i].last => a[i].req < a[j].req)

PiecesOf(a, s, d) ==
  \A i \in 1 .. Len(a) :
    /\ a[i].req \in 1 .. Len(s.requests)
    /\ s.requests[a[i].req].size # 0
    /\ DirectionOf(s, a[i].req) = d
    /\ a[i].last => a[i].addr + a[i].size = s.requests[a[i].req].size

Crossing(a, n, m) ==
  \A i \in n + 1 .. Len(a) :
    i = n + 1 \/ a[i - 1].last => a[i].addr = At(m, a[i].req)

Carries(a, n, s, d, m) ==
  /\ n \in 0 .. Len(a)
  /\ Linked(a) /\ Ascending(a) /\ PiecesOf(a, s, d) /\ Crossing(a, n, m)

(***************************************************************************)
(* The two queues, in the directions d and e.  All the bytes of a request  *)
(* have crossed the bus that is not behind what has crossed of a queue.    *)
(***************************************************************************)
Flow(a, n, d, b, l, e, s, m) ==
  /\ m \in Seq(Int) /\ Len(m) <= Len(s.requests)
  /\ a \in Seq(PieceType) /\ Carries(a, n, s, d, m)
  /\ b \in Seq(PieceType) /\ Carries(b, l, s, e, m)
  /\ \A r \in 1 .. Len(s.requests) :
       r \notin Behind(a, n) /\ r \notin Behind(b, l)
         => At(m, r) = s.requests[r].size

QueueFlow(s, m) ==
  Flow(PiecesW(s.write), CrossedW(s.write), "write",
       PiecesR(s.read), CrossedR(s.read), "read", s, m)

(***************************************************************************)
(* The requests for data that command c still waits for, but for x, which  *)
(* is being answered; a request of no bytes is never answered.             *)
(***************************************************************************)
DataOf(s, c) ==
  {r \in 1 .. Len(s.requests) :
     s.requests[r].cmd = c /\ s.requests[r].what = "data"}

Owed(s, c, x) ==
  {r \in DataOf(s, c) :
     r # x /\ (s.requests[r].size = 0 \/ r \in Requested(s))}

AskedBytes(s, c) ==
  UNION {s.requests[r].pos .. s.requests[r].pos + s.requests[r].size - 1 :
           r \in DataOf(s, c)}

(***************************************************************************)
(* What command x knows of its list is the first part of it.               *)
(***************************************************************************)
Flattened(segments) ==
  [i \in 0 .. Len(segments) |-> FlattenSeq(SubSeq(segments, 1, i))]

ListKnown(x) ==
  LET t == x.transfer
      l == NewList(t)
  IN  IF x.lists = <<>> THEN x.chunks = Data(t)
      ELSE IF t.kind = "sgl"
      THEN \E i \in 0 .. Len(t.segments) - 1 :
             /\ x.lists = SubSeq(t.segments, i + 1, Len(t.segments))
             /\ x.chunks = Flattened(t.segments)[i]
      ELSE x.chunks = l.chunks /\ x.lists = l.lists /\ x.todo = l.todo

CommandFlow(s, c, x) ==
  LET y == s.cmds[c]
  IN  /\ ~Chained(y.transfer) => ListKnown(y)
      /\ y.at \in {"moving", "done"} =>
           /\ y.counter = Cardinality(Owed(s, c, x))
           /\ y.at = "done" => y.counter = 0
           /\ ~Chained(y.transfer) => AskedBytes(s, c) = Wanted(y.transfer)

FlowInv(s, m, x) ==
  /\ QueueFlow(s, m)
  /\ \A c \in 1 .. Len(s.cmds) : CommandFlow(s, c, x)

(***************************************************************************)
(* A command that waits for a core to begin has its whole list.            *)
(***************************************************************************)
ListsGone(s) ==
  \A c \in 1 .. Len(s.cmds) : s.cmds[c].at = "parsed" => s.cmds[c].lists = <<>>

TransferInv ==
  FlowInv(State, moved, 0) /\ Len(moved) = Len(requests) /\ ListsGone(State)
(***************************************************************************)
(* A piece was split behind the first n, and pieces got their ids.         *)
(***************************************************************************)
Alike(p, q) ==
  p.req = q.req /\ p.addr = q.addr /\ p.size = q.size /\ p.last = q.last

SplitAt(a, b, k) ==
  /\ Len(b) = Len(a) + 1
  /\ \A i \in 1 .. k - 1 : Alike(b[i], a[i])
  /\ b[k].req = a[k].req /\ b[k].addr = a[k].addr /\ ~b[k].last
  /\ b[k + 1].req = a[k].req /\ b[k + 1].addr = a[k].addr + b[k].size
  /\ b[k + 1].size = a[k].size - b[k].size /\ b[k + 1].last = a[k].last
  /\ \A i \in k + 1 .. Len(a) : Alike(b[i + 1], a[i])

Refined(a, b, n) ==
  \/ Len(b) = Len(a) /\ \A i \in 1 .. Len(a) : Alike(b[i], a[i])
  \/ \E k \in n + 1 .. Len(a) : SplitAt(a, b, k)

(***************************************************************************)
(* In terms of SplitAt, piece i of b is a part of piece From(i) of a.      *)
(***************************************************************************)
LEMMA RefinedKeeps ==
  ASSUME NEW a \in Seq(PieceType), NEW b \in Seq(PieceType), NEW n \in Nat,
         Refined(a, b, n), NEW s, NEW d, NEW m, Carries(a, n, s, d, m)
  PROVE  /\ Carries(b, n, s, d, m)
         /\ Behind(b, n) = Behind(a, n) /\ Behind(b, 0) = Behind(a, 0)
<1>1. /\ Len(a) \in Nat /\ Len(b) \in Nat /\ n \in 0 .. Len(a)
      /\ \A i \in 1 .. Len(a) : a[i] \in PieceType
      /\ \A i \in 1 .. Len(b) : b[i] \in PieceType
  BY DEF Carries
<1>2. /\ \A i \in 1 .. Len(a) : a[i].req \in Nat /\ a[i].addr \in Int
                                /\ a[i].size \in Int /\ a[i].last \in BOOLEAN
      /\ \A i \in 1 .. Len(b) : b[i].req \in Nat /\ b[i].addr \in Int
                                /\ b[i].size \in Int /\ b[i].last \in BOOLEAN
  BY <1>1, PieceFields
<1>3. CASE Len(b) = Len(a) /\ \A i \in 1 .. Len(a) : Alike(b[i], a[i])
  <2>1. /\ Len(b) = Len(a)
        /\ \A i \in 1 .. Len(a) :
             /\ b[i].req = a[i].req /\ b[i].addr = a[i].addr
             /\ b[i].size = a[i].size /\ b[i].last = a[i].last
    BY <1>3 DEF Alike
  <2>2. Linked(b)
    <3>1. \A i \in 1 .. Len(a) : i < Len(a) => i + 1 \in 1 .. Len(a)
      BY <1>1
    <3> QED BY <2>1, <3>1 DEF Linked, Carries
  <2>3. Ascending(b)
    BY <2>1 DEF Ascending, Carries
  <2>4. PiecesOf(b, s, d)
    BY <2>1 DEF PiecesOf, Carries
  <2>5. Crossing(b, n, m)
    <3>1. \A i \in n + 1 .. Len(a) :
            i \in 1 .. Len(a) /\ (i # n + 1 => i - 1 \in 1 .. Len(a))
      BY <1>1
    <3> QED BY <2>1, <3>1, Zenon DEF Crossing, Carries
  <2>6. Behind(b, n) = Behind(a, n) /\ Behind(b, 0) = Behind(a, 0)
    <3>1. /\ \A i \in n + 1 .. Len(a) : i \in 1 .. Len(a)
          /\ \A i \in 0 + 1 .. Len(a) : i \in 1 .. Len(a)
      BY <1>1
    <3> QED BY <2>1, <3>1 DEF Behind
  <2> QED BY <1>1, <2>1, <2>2, <2>3, <2>4, <2>5, <2>6 DEF Carries
<1>4. ASSUME NEW k \in n + 1 .. Len(a), SplitAt(a, b, k)
      PROVE  /\ Carries(b, n, s, d, m)
             /\ Behind(b, n) = Behind(a, n) /\ Behind(b, 0) = Behind(a, 0)
  <2> DEFINE from(i) == IF i <= k THEN i ELSE i - 1
  <2>1. /\ k \in 1 .. Len(a) /\ Len(b) = Len(a) + 1
        /\ k \in 1 .. Len(b) /\ k + 1 \in 1 .. Len(b)
    BY <1>1, <1>4 DEF SplitAt
  <2>2. ASSUME NEW i \in 1 .. Len(b)
        PROVE  /\ from(i) \in 1 .. Len(a) /\ b[i].req = a[from(i)].req
               /\ i # k => b[i].last = a[from(i)].last
               /\ i # k + 1 => b[i].addr = a[from(i)].addr
               /\ i \notin {k, k + 1} => b[i].size = a[from(i)].size
    <3>1. from(i) \in 1 .. Len(a)
      BY <1>1, <2>1
    <3>2. CASE i < k
      <4>1. i \in 1 .. k - 1 /\ from(i) = i
        BY <2>1, <3>2
      <4> QED BY <1>4, <3>1, <4>1 DEF SplitAt, Alike
    <3>3. CASE i = k
      BY <1>4, <3>1, <3>3 DEF SplitAt
    <3>4. CASE i = k + 1
      <4>1. from(i) = k /\ i # k
        BY <2>1, <3>4
      <4> QED BY <1>4, <3>1, <3>4, <4>1 DEF SplitAt
    <3>5. CASE i > k + 1
      <4>1. PICK j : j = i - 1
        OBVIOUS
      <4>2. j \in k + 1 .. Len(a) /\ from(i) = j /\ i = j + 1
        BY <2>1, <3>5, <4>1
      <4>3. Alike(b[j + 1], a[j])
        BY <1>4, <4>2 DEF SplitAt
      <4> QED BY <3>1, <3>5, <4>2, <4>3 DEF Alike
    <3> QED BY <2>1, <3>2, <3>3, <3>4, <3>5
  <2>3. /\ ~b[k].last /\ b[k].addr = a[k].addr
        /\ b[k + 1].addr = a[k].addr + b[k].size
        /\ b[k + 1].size = a[k].size - b[k].size
        /\ b[k + 1].last = a[k].last
        /\ b[k].req = a[k].req /\ b[k + 1].req = a[k].req
    BY <1>4 DEF SplitAt
  <2>4. Linked(b)
    <3>1. ASSUME NEW i \in 1 .. Len(b), ~b[i].last
          PROVE  /\ i < Len(b) /\ b[i + 1].req = b[i].req
                 /\ b[i + 1].addr = b[i].addr + b[i].size
      <4>1. CASE i = k
        BY <2>1, <2>3, <4>1
      <4>2. CASE i = k + 1
        <5>1. ~a[k].last
          BY <2>3, <3>1, <4>2
        <5>2. k < Len(a) /\ a[k + 1].req = a[k].req
              /\ a[k + 1].addr = a[k].addr + a[k].size
          BY <2>1, <5>1 DEF Carries, Linked
        <5>3. k + 2 \in 1 .. Len(b) /\ k + 2 = i + 1 /\ k + 1 \in 1 .. Len(a)
              /\ from(k + 2) = k + 1
          BY <2>1, <4>2, <5>2
        <5>4. b[k + 2].req = a[k + 1].req /\ b[k + 2].addr = a[k + 1].addr
          BY <2>1, <2>2, <5>3
        <5>5. PICK x, y, z, w : x = a[k].addr /\ y = a[k].size /\ z = b[k].size
                                /\ w = b[k + 1].addr
          OBVIOUS
        <5>6. x \in Int /\ y \in Int /\ z \in Int /\ w = x + z
              /\ b[k + 1].size = y - z /\ b[k + 2].addr = x + y
          BY <1>2, <2>1, <2>3, <5>2, <5>4, <5>5, Zenon
        <5>7. x + y = w + (y - z)
          BY <5>6
        <5> QED BY <2>1, <2>3, <4>2, <5>2, <5>3, <5>4, <5>5, <5>6, <5>7
      <4>3. CASE i \notin {k, k + 1}
        <5>1. PICK j : j = from(i)
          OBVIOUS
        <5>2. /\ j \in 1 .. Len(a) /\ ~a[j].last /\ a[j].req = b[i].req
              /\ a[j].addr = b[i].addr /\ a[j].size = b[i].size
          BY <2>2, <3>1, <4>3, <5>1, Zenon
        <5>3. j < Len(a) /\ a[j + 1].req = a[j].req
              /\ a[j + 1].addr = a[j].addr + a[j].size
          BY <5>2 DEF Carries, Linked
        <5>4. /\ i + 1 \in 1 .. Len(b) /\ from(i + 1) = j + 1 /\ i + 1 # k + 1
              /\ i < Len(b)
          BY <2>1, <4>3, <5>1, <5>2, <5>3
        <5> QED BY <2>2, <5>2, <5>3, <5>4
      <4> QED BY <4>1, <4>2, <4>3
    <3> QED BY <3>1, Zenon DEF Linked
  <2>5. Ascending(b)
    <3>1. ASSUME NEW i \in 1 .. Len(b), NEW j \in 1 .. Len(b), i < j
          PROVE  b[i].req <= b[j].req /\ (b[i].last => b[i].req < b[j].req)
      <4>1. PICK x, y : x = from(i) /\ y = from(j)
        OBVIOUS
      <4>2. x \in 1 .. Len(a) /\ y \in 1 .. Len(a) /\ b[i].req = a[x].req
            /\ b[j].req = a[y].req
        BY <2>2, <4>1
      <4>3. CASE i = k /\ j = k + 1
        BY <1>2, <2>1, <2>3, <4>3
      <4>4. CASE ~(i = k /\ j = k + 1)
        <5>1. x < y
          BY <2>1, <3>1, <4>1, <4>4
        <5>2. a[x].req <= a[y].req /\ (a[x].last => a[x].req < a[y].req)
          BY <4>2, <5>1 DEF Carries, Ascending
        <5>3. b[i].last => a[x].last
          BY <2>2, <2>3, <4>1, Zenon
        <5> QED BY <4>2, <5>2, <5>3
      <4> QED BY <4>3, <4>4
    <3> QED BY <3>1 DEF Ascending
  <2>6. PiecesOf(b, s, d)
    <3>1. ASSUME NEW i \in 1 .. Len(b)
          PROVE  /\ b[i].req \in 1 .. Len(s.requests)
                 /\ s.requests[b[i].req].size # 0
                 /\ DirectionOf(s, b[i].req) = d
                 /\ b[i].last => b[i].addr + b[i].size = s.requests[b[i].req].size
      <4>1. PICK x : x = from(i)
        OBVIOUS
      <4>2. x \in 1 .. Len(a) /\ b[i].req = a[x].req
        BY <2>2, <4>1
      <4>3. /\ a[x].req \in 1 .. Len(s.requests)
            /\ s.requests[a[x].req].size # 0
            /\ DirectionOf(s, a[x].req) = d
            /\ a[x].last => a[x].addr + a[x].size = s.requests[a[x].req].size
        BY <4>2, Zenon DEF Carries, PiecesOf
      <4>4. b[i].last => a[x].last /\ b[i].addr + b[i].size = a[x].addr + a[x].size
        <5>1. CASE i = k + 1
          <6>1. x = k
            BY <2>1, <4>1, <5>1
          <6> QED BY <1>2, <2>1, <2>3, <5>1, <6>1
        <5>2. CASE i # k + 1
          BY <2>2, <2>3, <4>1, <5>2, Zenon
        <5> QED BY <5>1, <5>2
      <4> QED BY <4>2, <4>3, <4>4
    <3> QED BY <3>1 DEF PiecesOf
  <2>7. Crossing(b, n, m)
    <3>1. ASSUME NEW i \in n + 1 .. Len(b), i = n + 1 \/ b[i - 1].last
          PROVE  b[i].addr = At(m, b[i].req)
      <4>1. i # k + 1
        BY <1>1, <2>3, <3>1
      <4>2. PICK x : x = from(i)
        OBVIOUS
      <4>3. i \in 1 .. Len(b)
        BY <1>1
      <4>4. x \in n + 1 .. Len(a) /\ b[i].req = a[x].req /\ b[i].addr = a[x].addr
        <5>1. x \in n + 1 .. Len(a)
          BY <1>1, <2>1, <4>2
        <5> QED BY <2>2, <4>1, <4>2, <4>3, <5>1
      <4>5. x = n + 1 \/ a[x - 1].last
        <5>1. CASE i = n + 1
          BY <1>1, <2>1, <4>2, <5>1
        <5>2. CASE i # n + 1
          <6>1. i - 1 \in 1 .. Len(b) /\ i - 1 # k /\ from(i - 1) = x - 1
            BY <1>1, <2>1, <4>1, <4>2, <5>2
          <6> QED BY <2>2, <3>1, <5>2, <6>1, Zenon
        <5> QED BY <5>1, <5>2
      <4> QED BY <4>4, <4>5, Zenon DEF Carries, Crossing
    <3> QED BY <3>1 DEF Crossing
  <2>8. ASSUME NEW l \in Nat, l <= n
        PROVE  Behind(b, l) = Behind(a, l)
    <3>1. ASSUME NEW i \in l + 1 .. Len(b)
          PROVE  b[i].req \in Behind(a, l)
      <4>1. i \in 1 .. Len(b) /\ from(i) \in l + 1 .. Len(a)
        BY <1>1, <2>1, <2>8
      <4> QED BY <2>2, <4>1, Zenon DEF Behind
    <3>2. ASSUME NEW i \in l + 1 .. Len(a)
          PROVE  a[i].req \in Behind(b, l)
      <4>1. PICK j : j = IF i <= k THEN i ELSE i + 1
        OBVIOUS
      <4>2. j \in l + 1 .. Len(b) /\ j \in 1 .. Len(b) /\ from(j) = i
        BY <1>1, <2>1, <2>8, <4>1
      <4> QED BY <2>2, <4>2, Zenon DEF Behind
    <3> QED BY <3>1, <3>2, Zenon DEF Behind
  <2>9. Behind(b, n) = Behind(a, n) /\ Behind(b, 0) = Behind(a, 0)
    BY <1>1, <2>8
  <2>10. n \in 0 .. Len(b)
    BY <1>1, <2>1
  <2> QED BY <2>4, <2>5, <2>6, <2>7, <2>9, <2>10 DEF Carries
<1> QED BY <1>3, <1>4 DEF Refined

LEMMA SameRefined ==
  ASSUME NEW a, NEW n
  PROVE  Refined(a, a, n)
BY DEF Refined, Alike

LEMMA SplitRefines ==
  ASSUME NEW a \in Seq(PieceType), NEW w \in Seq(PieceType), w # <<>>,
         NEW v \in Seq(PieceType), Len(v) = Len(Split(w)),
         \A i \in 1 .. Len(v) : Alike(v[i], Split(w)[i]),
         NEW n \in Nat, n <= Len(a)
  PROVE  Refined(a \o w, a \o v, n)
<1> DEFINE p == Head(w)
           x == [p EXCEPT !.size = TransferUnit, !.last = FALSE]
           y == [p EXCEPT !.addr = @ + TransferUnit, !.size = @ - TransferUnit]
<1>1. p \in PieceType /\ p = w[1] /\ Tail(w) \in Seq(PieceType)
  BY HeadAndTail
<1>2. PICK l : l = Len(a)
  OBVIOUS
<1>3. /\ l \in Nat /\ Len(w) \in Nat /\ Len(v) \in Nat /\ Len(w) >= 1
      /\ Len(a \o w) = l + Len(w) /\ Len(a \o v) = l + Len(v)
      /\ \A i \in 1 .. l + Len(w) :
           (a \o w)[i] = IF i <= l THEN a[i] ELSE w[i - l]
      /\ \A i \in 1 .. l + Len(v) :
           (a \o v)[i] = IF i <= l THEN a[i] ELSE v[i - l]
  <2>1. Split(w) # <<>> /\ Len(w) \in Nat /\ Len(v) \in Nat /\ Len(w) >= 1
    BY SplitLemma
  <2>2. /\ Len(a \o w) = Len(a) + Len(w)
        /\ \A i \in 1 .. Len(a) + Len(w) :
             (a \o w)[i] = IF i <= Len(a) THEN a[i] ELSE w[i - Len(a)]
    BY ConcatProperties
  <2>3. /\ Len(a \o v) = Len(a) + Len(v)
        /\ \A i \in 1 .. Len(a) + Len(v) :
             (a \o v)[i] = IF i <= Len(a) THEN a[i] ELSE v[i - Len(a)]
    BY ConcatProperties, Zenon
  <2> QED BY <1>2, <2>1, <2>2, <2>3
<1>4. CASE calcSize(p.size) <= QueueSize
  <2>1. Split(w) = w
    BY <1>4 DEF Split
  <2>2. ASSUME NEW i \in 1 .. l + Len(w)
        PROVE  Alike((a \o v)[i], (a \o w)[i])
    <3>1. Len(v) = Len(w) /\ (i > l => i - l \in 1 .. Len(v))
      BY <1>3, <2>1
    <3> QED BY <1>3, <2>1, <3>1 DEF Alike
  <2> QED BY <1>3, <2>1, <2>2 DEF Refined
<1>5. CASE ~(calcSize(p.size) <= QueueSize)
  <2>1. Split(w) = <<x, y>> \o Tail(w)
    BY <1>5 DEF Split
  <2>2. PICK q : q = p
    OBVIOUS
  <2>3. q \in PieceType /\ w[1] = q
    BY <1>1, <2>2
  <2>4. /\ x.req = q.req /\ x.addr = q.addr /\ x.size = TransferUnit /\ ~x.last
        /\ y.req = q.req /\ y.addr = q.addr + TransferUnit
        /\ y.size = q.size - TransferUnit /\ y.last = q.last
    <3> HIDE DEF p
    <3> QED BY <2>2, <2>3 DEF PieceType
  <2>5. x \in PieceType /\ y \in PieceType
    <3>1. TransferUnit \in Int /\ q.addr + TransferUnit \in Int
          /\ q.size - TransferUnit \in Int
      <4>1. q.addr \in Int /\ q.size \in Int
        BY <2>3 DEF PieceType
      <4>2. TransferUnit \in Int
        BY FIFOAssumption
      <4> QED BY ONLY <4>1, <4>2
    <3> HIDE DEF p
    <3> QED BY <2>2, <2>3, <3>1, Zenon DEF PieceType
  <2>6. PICK X, Y, u : X = x /\ Y = y /\ u = Tail(w)
    BY Zenon
  <2> HIDE DEF x, y, p
  <2>7. /\ u \in Seq(PieceType) /\ X \in PieceType /\ Y \in PieceType
        /\ Len(u) = Len(w) - 1 /\ \A i \in 1 .. Len(w) - 1 : u[i] = w[i + 1]
    BY <1>1, <1>3, <2>5, <2>6
  <2>8. /\ Len(<<X, Y>> \o u) = Len(u) + 2
        /\ (<<X, Y>> \o u)[1] = X /\ (<<X, Y>> \o u)[2] = Y
        /\ \A i \in 1 .. Len(u) : (<<X, Y>> \o u)[i + 2] = u[i]
    BY ONLY <2>7
  <2>9. /\ Len(v) = Len(w) + 1 /\ Alike(v[1], X) /\ Alike(v[2], Y)
        /\ \A i \in 2 .. Len(w) : Alike(v[i + 1], w[i])
    <3>1. Len(v) = Len(w) + 1 /\ 1 \in 1 .. Len(v) /\ 2 \in 1 .. Len(v)
      BY <1>3, <2>1, <2>6, <2>7, <2>8
    <3>2. ASSUME NEW i \in 2 .. Len(w) PROVE Alike(v[i + 1], w[i])
      <4>1. PICK j : j = i - 1
        OBVIOUS
      <4>2. j \in 1 .. Len(u) /\ i + 1 = j + 2 /\ i = j + 1
            /\ i + 1 \in 1 .. Len(v) /\ j \in 1 .. Len(w) - 1
        BY <1>3, <2>7, <3>1, <4>1
      <4>3. Split(w)[i + 1] = w[i]
        BY <2>1, <2>6, <2>7, <2>8, <4>2
      <4> QED BY <4>2, <4>3
    <3> QED BY <2>1, <2>6, <2>8, <3>1, <3>2
  <2>10. PICK k, A, B : k = l + 1 /\ A = a \o w /\ B = a \o v
    BY Zenon
  <2>11. /\ k \in n + 1 .. Len(A) /\ Len(B) = Len(A) + 1
         /\ A[k] = w[1] /\ B[k] = v[1] /\ B[k + 1] = v[2]
    BY <1>2, <1>3, <2>9, <2>10
  <2>12. \A i \in 1 .. k - 1 : Alike(B[i], A[i])
    BY <1>3, <2>10 DEF Alike
  <2>13. ASSUME NEW i \in k + 1 .. Len(A)
         PROVE  Alike(B[i + 1], A[i])
    <3>1. PICK j : j = i - l
      OBVIOUS
    <3>2. /\ j \in 2 .. Len(w) /\ i + 1 - l = j + 1 /\ i > l /\ i + 1 > l
          /\ i \in 1 .. l + Len(w) /\ i + 1 \in 1 .. l + Len(v)
      BY <1>3, <2>9, <2>10, <3>1
    <3>3. A[i] = w[j] /\ B[i + 1] = v[j + 1]
      <4>1. A[i] = w[i - l]
        BY ONLY <1>3, <2>10, <3>2
      <4>2. B[i + 1] = v[i + 1 - l]
        BY ONLY <1>3, <2>10, <3>2
      <4> QED BY <3>1, <3>2, <4>1, <4>2
    <3> QED BY <2>9, <3>2, <3>3
  <2>14. SplitAt(A, B, k)
    <3>1. /\ B[k].req = A[k].req /\ B[k].addr = A[k].addr /\ ~B[k].last
          /\ B[k + 1].req = A[k].req /\ B[k + 1].addr = A[k].addr + B[k].size
          /\ B[k + 1].size = A[k].size - B[k].size /\ B[k + 1].last = A[k].last
      BY <2>3, <2>4, <2>6, <2>9, <2>11 DEF Alike
    <3> QED BY <2>11, <2>12, <2>13, <3>1 DEF SplitAt
  <2> QED BY <2>10, <2>11, <2>14 DEF Refined
<1> QED BY <1>4, <1>5

(***************************************************************************)
(* The flow of a queue goes on: no piece crosses the bus, but a waiting    *)
(* one may be split.                                                       *)
(***************************************************************************)
Continues(a, n, b, l) ==
  /\ a \in Seq(PieceType) /\ b \in Seq(PieceType)
  /\ n \in Nat /\ n <= Len(a) /\ l = n /\ Refined(a, b, n)

LEMMA WritePieces ==
  ASSUME NEW q, WriteInv(q)
  PROVE  PiecesW(q) \in Seq(PieceType) /\ CrossedW(q) \in 0 .. Len(q.transfer)
         /\ CrossedW(q) <= Len(PiecesW(q))
<1>1. /\ q \in QueueType /\ q.insertPending \in BOOLEAN
      /\ (q.insertPending => q.wait # <<>>) /\ q.transfer \in Seq(PieceType)
      /\ (q.transferPending => q.transfer # <<>>)
  BY QueueFields DEF WriteInv, HeadFits
<1>2. PICK a, v : a = q.transfer /\ v = Waiting(q, q.insertPending)
  OBVIOUS
<1>3. a \in Seq(PieceType) /\ v \in Seq(PieceType)
      /\ (q.transferPending => a # <<>>)
  BY <1>1, <1>2, UnansweredLemma
<1>4. a \o v \in Seq(PieceType) /\ Len(a) <= Len(a \o v) /\ Len(a) \in Nat
      /\ Len(a \o v) \in Nat /\ (a # <<>> => Len(a) >= 1)
  BY ONLY <1>3
<1>5. PiecesW(q) = a \o v
  BY <1>2 DEF PiecesW, Pieces
<1>6. CrossedW(q) \in 0 .. Len(a)
  BY <1>1, <1>2, <1>3, <1>4 DEF CrossedW
<1>7. CrossedW(q) <= Len(a \o v)
  BY <1>4, <1>6
<1> QED BY <1>2, <1>4, <1>5, <1>6, <1>7, Zenon

LEMMA ReadPieces ==
  ASSUME NEW q, NEW done, ReadInv(q, done)
  PROVE  PiecesR(q) \in Seq(PieceType) /\ CrossedR(q) \in 0 .. Len(q.transfer)
         /\ CrossedR(q) <= Len(PiecesR(q))
<1>1. /\ q \in QueueType /\ q.transferPending \in BOOLEAN
      /\ (q.transferPending => q.wait # <<>>) /\ q.transfer \in Seq(PieceType)
      /\ (q.transferPending => q.transfer # <<>>)
  BY ReadFields DEF ReadInv
<1>2. PICK a, v : a = q.transfer /\ v = Waiting(q, q.transferPending)
  OBVIOUS
<1>3. a \in Seq(PieceType) /\ v \in Seq(PieceType)
      /\ (q.transferPending => a # <<>>)
  BY <1>1, <1>2, UnansweredLemma
<1>4. a \o v \in Seq(PieceType) /\ Len(a) <= Len(a \o v) /\ Len(a) \in Nat
      /\ Len(a \o v) \in Nat /\ (a # <<>> => Len(a) >= 1)
  BY ONLY <1>3
<1>5. PiecesR(q) = a \o v
  BY <1>2 DEF PiecesR, Pieces
<1>6. CrossedR(q) \in 0 .. Len(a)
  BY <1>1, <1>2, <1>3, <1>4 DEF CrossedR
<1>7. CrossedR(q) <= Len(a \o v)
  BY <1>4, <1>6
<1> QED BY <1>2, <1>4, <1>5, <1>6, <1>7, Zenon

LEMMA SameFlow ==
  ASSUME NEW a \in Seq(PieceType), NEW n \in Nat, n <= Len(a)
  PROVE  Continues(a, n, a, n)
BY SameRefined DEF Continues

(***************************************************************************)
(* The first waiting piece goes to the buffer, perhaps split.              *)
(***************************************************************************)
LEMMA FilledFlow ==
  ASSUME NEW a \in Seq(PieceType), NEW w \in Seq(PieceType), w # <<>>,
         NEW v \in Seq(PieceType), v # <<>>, Len(v) = Len(Split(w)),
         \A i \in 1 .. Len(v) : Alike(v[i], Split(w)[i]),
         NEW n \in Nat, n <= Len(a)
  PROVE  Continues(a \o w, n, Append(a, v[1]) \o Tail(v), n)
<1>1. Append(a, v[1]) \o Tail(v) = a \o v
  BY ONLY a \in Seq(PieceType), v \in Seq(PieceType), v # <<>>, HeadAndTail
<1>2. /\ a \o w \in Seq(PieceType) /\ a \o v \in Seq(PieceType)
      /\ Len(a) <= Len(a \o w) /\ Len(a) \in Nat /\ Len(a \o w) \in Nat
  BY ONLY a \in Seq(PieceType), v \in Seq(PieceType), w \in Seq(PieceType)
<1>3. Refined(a \o w, a \o v, n)
  BY SplitRefines
<1>4. n <= Len(a \o w)
  BY <1>2
<1> QED BY <1>1, <1>2, <1>3, <1>4, Zenon DEF Continues

LEMMA InsertWriteFlow ==
  ASSUME NEW q, WriteInv(q), NEW t, t = insertWrite(q)
  PROVE  Continues(PiecesW(q), CrossedW(q), PiecesW(t), CrossedW(t))
<1>1. CASE q.wait = <<>> \/ Blocked(q, q.insertPending)
  BY <1>1, WritePieces, SameFlow DEF insertWrite
<1>2. CASE ~(q.wait = <<>> \/ Blocked(q, q.insertPending))
  <2>1. q \in QueueType /\ q.wait \in Seq(PieceType) /\ q.wait # <<>>
        /\ q.transfer \in Seq(PieceType)
    BY <1>2, QueueFields DEF WriteInv
  <2>2. ~q.insertPending
    <3>1. Head(q.wait) = q.wait[1]
      BY <2>1, HeadAndTail
    <3> QED BY <1>2, <2>1, <3>1 DEF WriteInv, HeadFits, Blocked
  <2>3. PICK w : w = Split(q.wait)
    OBVIOUS
  <2>4. w \in Seq(PieceType) /\ w # <<>> /\ Head(w) = w[1]
    BY <2>1, <2>3, SplitLemma
  <2>5. t.wait = w /\ t.transfer = Append(q.transfer, w[1])
        /\ t.insertPending /\ t.transferPending = q.transferPending
        /\ t.dma = q.dma
    BY <1>2, <2>1, <2>3, <2>4 DEF insertWrite, QueueType
  <2>6. PICK n : n = CrossedW(q)
    OBVIOUS
  <2>7. n \in Nat /\ n <= Len(q.transfer) /\ CrossedW(t) = n
    BY <2>5, <2>6, WritePieces DEF CrossedW
  <2>8. PiecesW(q) = q.transfer \o q.wait
    BY <2>2, Zenon DEF PiecesW, Pieces, Waiting
  <2>9. PiecesW(t) = Append(q.transfer, w[1]) \o Tail(w)
    BY <2>5, Zenon DEF PiecesW, Pieces, Waiting
  <2>10. \A i \in 1 .. Len(w) : Alike(w[i], Split(q.wait)[i])
    BY <2>3 DEF Alike
  <2>11. Continues(q.transfer \o q.wait, n, Append(q.transfer, w[1]) \o Tail(w), n)
    <3>1. PICK a, o : a = q.transfer /\ o = q.wait
      OBVIOUS
    <3>2. /\ a \in Seq(PieceType) /\ o \in Seq(PieceType) /\ o # <<>>
          /\ Len(w) = Len(Split(o)) /\ n <= Len(a)
          /\ \A i \in 1 .. Len(w) : Alike(w[i], Split(o)[i])
      BY <2>1, <2>3, <2>7, <2>10, <3>1
    <3>3. Continues(a \o o, n, Append(a, w[1]) \o Tail(w), n)
      BY ONLY <2>4, <2>7, <3>2, FilledFlow, Zenon
    <3> QED BY <3>1, <3>3
  <2> QED BY <2>6, <2>7, <2>8, <2>9, <2>11
<1> QED BY <1>1, <1>2

LEMMA AppendedPieces ==
  ASSUME NEW q \in QueueType, NEW b \in BOOLEAN, b => q.wait # <<>>,
         NEW p \in PieceType,
         NEW t, t = [q EXCEPT !.wait = Append(@, p)]
  PROVE  Pieces(t, b) = Append(Pieces(q, b), p)
<1>1. PICK w, a : w = q.wait /\ a = q.transfer
  OBVIOUS
<1>2. w \in Seq(PieceType) /\ a \in Seq(PieceType)
  BY <1>1, QueueFields
<1>3. w # <<>> => Tail(Append(w, p)) = Append(Tail(w), p)
  BY ONLY <1>2, p \in PieceType
<1>4. t.wait = Append(w, p) /\ t.transfer = a
  BY <1>1 DEF QueueType
<1>5. PICK v : v = Waiting(q, b) /\ v \in Seq(PieceType)
  <2>1. Waiting(q, b) \in Seq(PieceType)
    BY UnansweredLemma
  <2> QED BY <2>1
<1>6. Waiting(t, b) = Append(v, p)
  BY <1>1, <1>3, <1>4, <1>5 DEF Waiting
<1>7. a \o Append(v, p) = Append(a \o v, p)
  <2>1. a \in Seq(PieceType) /\ v \in Seq(PieceType) /\ p \in PieceType
    BY <1>2, <1>5
  <2> QED BY ONLY <2>1, ConcatAppend
<1> QED BY <1>1, <1>4, <1>5, <1>6, <1>7, Zenon DEF Pieces

LEMMA DmaWriteFlow ==
  ASSUME NEW q, WriteInv(q), NEW r \in Nat, NEW size \in Int, size # 0,
         NEW t, t = dmaWrite(q, r, size)
  PROVE  Continues(Append(PiecesW(q), FIFOEntry(r, size)), CrossedW(q),
                PiecesW(t), CrossedW(t))
<1>1. PICK p : p = FIFOEntry(r, size)
  OBVIOUS
<1>2. p \in PieceType /\ p.last
  BY <1>1 DEF PieceType, FIFOEntry
<1>3. PICK u : u = [q EXCEPT !.wait = Append(@, p)]
  BY Zenon
<1>4. PICK b : b = q.insertPending
  OBVIOUS
<1>5. q \in QueueType /\ b \in BOOLEAN /\ (b => q.wait # <<>>)
  BY <1>4, QueueFields DEF WriteInv, HeadFits
<1>6. /\ u \in QueueType /\ u.wait # <<>>
      /\ q.wait # <<>> => u.wait[1] = q.wait[1]
  BY <1>2, <1>3, <1>5, AppendedPiece, Zenon
<1>7. /\ u.insertPending = b /\ u.insertDone = q.insertDone
      /\ u.transferPending = q.transferPending /\ u.dma = q.dma
      /\ u.submitCompletion = q.submitCompletion
      /\ u.beginTransfer = q.beginTransfer /\ u.transfer = q.transfer
  BY <1>3, <1>4, <1>5 DEF QueueType
<1>8. WriteInv(u)
  BY <1>4, <1>6, <1>7 DEF WriteInv, HeadFits, BeginHasPiece
<1>9. PiecesW(u) = Append(PiecesW(q), p) /\ CrossedW(u) = CrossedW(q)
  <2>1. Pieces(u, b) = Append(Pieces(q, b), p)
    BY ONLY <1>2, <1>3, <1>5, AppendedPieces
  <2> QED BY <1>4, <1>7, <2>1 DEF PiecesW, CrossedW
<1>10. t = insertWrite(u)
  BY <1>1, <1>3 DEF dmaWrite
<1> QED BY <1>1, <1>8, <1>9, <1>10, InsertWriteFlow, Zenon

(***************************************************************************)
(* The events of the write queue.                                          *)
(***************************************************************************)
LEMMA InsertWriteDoneFlow ==
  ASSUME NEW q, WriteInv(q), q.insertDone, NEW t, t = insertWriteDone(q)
  PROVE  Continues(PiecesW(q), CrossedW(q), PiecesW(t), CrossedW(t))
<1>1. q \in QueueType /\ q.insertPending /\ q.wait \in Seq(PieceType)
      /\ q.wait # <<>>
  BY QueueFields DEF WriteInv, HeadFits
<1>2. PICK u : u = [q EXCEPT !.wait = Tail(@), !.insertPending = FALSE,
                             !.insertDone = FALSE]
  OBVIOUS
<1>3. Tail(q.wait) \in Seq(PieceType)
  BY <1>1, HeadAndTail
<1>4. /\ u \in QueueType /\ u.wait = Tail(q.wait)
      /\ ~u.insertPending /\ ~u.insertDone
      /\ u.transferPending = q.transferPending /\ u.dma = q.dma
      /\ u.submitCompletion = q.submitCompletion
      /\ u.beginTransfer = q.beginTransfer /\ u.transfer = q.transfer
  BY <1>1, <1>2, <1>3, Zenon DEF QueueType
<1>5. WriteInv(u)
  BY <1>4 DEF WriteInv, BeginHasPiece
<1>6. PiecesW(u) = PiecesW(q) /\ CrossedW(u) = CrossedW(q)
  BY <1>1, <1>4, Zenon DEF PiecesW, Pieces, Waiting, CrossedW
<1>7. t = insertWrite(u)
  BY <1>2 DEF insertWriteDone
<1> QED BY <1>5, <1>6, <1>7, InsertWriteFlow

LEMMA TransferWriteFlow ==
  ASSUME NEW q, q \in QueueType, q.dma => q.transferPending,
         NEW t, t = transferWrite(q)
  PROVE  PiecesW(t) = PiecesW(q) /\ CrossedW(t) = CrossedW(q)
<1>1. CASE q.transferPending
  BY <1>1 DEF transferWrite
<1>2. CASE ~q.transferPending
  <2>1. t.wait = q.wait /\ t.transfer = q.transfer
        /\ t.insertPending = q.insertPending /\ t.transferPending /\ t.dma
    BY <1>2 DEF transferWrite, QueueType
  <2> QED BY <1>2, <2>1 DEF PiecesW, Pieces, Waiting, CrossedW
<1> QED BY <1>1, <1>2

LEMMA BeginTransferWriteFlow ==
  ASSUME NEW q, WriteInv(q),
         NEW t, t = transferWrite([q EXCEPT !.beginTransfer = FALSE])
  PROVE  PiecesW(t) = PiecesW(q) /\ CrossedW(t) = CrossedW(q)
<1>1. PICK u : u = [q EXCEPT !.beginTransfer = FALSE]
  OBVIOUS
<1>2. q \in QueueType /\ (q.dma => q.transferPending)
  BY DEF WriteInv
<1>3. /\ u \in QueueType /\ u.wait = q.wait /\ u.transfer = q.transfer
      /\ u.insertPending = q.insertPending
      /\ u.transferPending = q.transferPending /\ u.dma = q.dma
  BY <1>1, <1>2, Zenon DEF QueueType
<1>4. PiecesW(t) = PiecesW(u) /\ CrossedW(t) = CrossedW(u)
  BY <1>1, <1>2, <1>3, TransferWriteFlow, Zenon
<1> QED BY <1>3, <1>4, Zenon DEF PiecesW, Pieces, Waiting, CrossedW

LEMMA TransferWriteDoneFlow ==
  ASSUME NEW q, WriteInv(q), q.dma, NEW t, t = WriteTransferred(q)
  PROVE  /\ CrossedW(q) = 0 /\ CrossedW(t) = 1 /\ PiecesW(t) = PiecesW(q)
         /\ Len(PiecesW(q)) >= 1 /\ Head(q.transfer) = PiecesW(q)[1]
<1>1. q \in QueueType /\ q.transferPending /\ q.transfer # <<>>
      /\ q.insertPending \in BOOLEAN /\ (q.insertPending => q.wait # <<>>)
      /\ q.transfer \in Seq(PieceType)
  BY QueueFields DEF WriteInv, HeadFits
<1>2. /\ t.wait = q.wait /\ t.transfer = q.transfer
      /\ t.insertPending = q.insertPending
      /\ t.transferPending = q.transferPending /\ ~t.dma
  BY <1>1, Zenon DEF QueueType, WriteTransferred
<1>3. PICK a, v : a = q.transfer /\ v = Waiting(q, q.insertPending)
  OBVIOUS
<1>4. a \in Seq(PieceType) /\ a # <<>> /\ v \in Seq(PieceType)
  BY <1>1, <1>3, UnansweredLemma
<1>5. Len(a \o v) >= 1 /\ Head(a) = (a \o v)[1]
  BY ONLY <1>4
<1> QED BY <1>1, <1>2, <1>3, <1>5, Zenon DEF PiecesW, Pieces, Waiting, CrossedW

LEMMA WriteFinishedFlow ==
  ASSUME NEW q, WriteInv(q), q.transferPending, ~q.dma, ~q.submitCompletion,
         NEW t, t = transferWriteDoneNext(q)
  PROVE  /\ CrossedW(q) = 1 /\ Len(PiecesW(q)) >= 1
         /\ q.transfer[1] = PiecesW(q)[1]
         /\ Continues(Tail(PiecesW(q)), 0, PiecesW(t), CrossedW(t))
<1>1. q \in QueueType /\ q.transfer \in Seq(PieceType) /\ q.transfer # <<>>
      /\ q.insertPending \in BOOLEAN /\ (q.insertPending => q.wait # <<>>)
      /\ q.usage \in Int
  BY QueueFields DEF WriteInv, HeadFits
<1>2. PICK x : x = q.usage - calcSize(Head(q.transfer).size) /\ x \in Int
  <2>1. Head(q.transfer) \in PieceType
    BY <1>1, HeadAndTail
  <2>2. calcSize(Head(q.transfer).size) \in Int
    BY <2>1, PieceFields, CalcSizeType
  <2>3. q.usage - calcSize(Head(q.transfer).size) \in Int
    BY <1>1, <2>2
  <2> QED BY <2>3
<1>3. PICK u : u = [q EXCEPT !.usage = x, !.transferPending = FALSE,
                             !.transfer = Tail(@)]
  OBVIOUS
<1>4. PICK a, v : a = q.transfer /\ v = Waiting(q, q.insertPending)
  OBVIOUS
<1>5. a \in Seq(PieceType) /\ a # <<>> /\ v \in Seq(PieceType)
  BY <1>1, <1>4, UnansweredLemma
<1>6. /\ Tail(a) \in Seq(PieceType) /\ Len(Tail(a)) = Len(a) - 1
      /\ Len(a) \in Nat /\ Len(a \o v) >= 1 /\ a[1] = (a \o v)[1]
      /\ Tail(a \o v) = Tail(a) \o v
  BY ONLY <1>5
<1>7. /\ u \in QueueType /\ u.wait = q.wait /\ u.transfer = Tail(q.transfer)
      /\ u.insertPending = q.insertPending /\ u.insertDone = q.insertDone
      /\ u.beginTransfer = q.beginTransfer /\ ~u.transferPending
      /\ ~u.dma /\ ~u.submitCompletion
  BY <1>1, <1>2, <1>3, <1>4, <1>6, Zenon DEF QueueType
<1>8. WriteInv(u)
  <2>1. BeginHasPiece(u, u.transferPending)
    BY <1>4, <1>6, <1>7 DEF WriteInv, BeginHasPiece
  <2> QED BY <1>7, <2>1 DEF WriteInv, HeadFits
<1>9. PICK o : o = IF u.transfer # <<>> /\ ~u.beginTransfer THEN transferWrite(u)
                   ELSE u
  OBVIOUS
<1>10. WriteInv(o) /\ PiecesW(o) = PiecesW(u) /\ CrossedW(o) = CrossedW(u)
  <2>1. CASE u.transfer # <<>> /\ ~u.beginTransfer
    BY <1>7, <1>8, <1>9, <2>1, TransferWriteLemma, TransferWriteFlow, Zenon
  <2>2. CASE ~(u.transfer # <<>> /\ ~u.beginTransfer)
    BY <1>8, <1>9, <2>2
  <2> QED BY <2>1, <2>2
<1>11. t = insertWrite(o)
  BY <1>2, <1>3, <1>9 DEF transferWriteDoneNext
<1>12. Continues(PiecesW(o), CrossedW(o), PiecesW(t), CrossedW(t))
  BY <1>10, <1>11, InsertWriteFlow
<1>13. PiecesW(u) = Tail(PiecesW(q)) /\ CrossedW(u) = 0
  BY <1>4, <1>6, <1>7, Zenon DEF PiecesW, Pieces, Waiting, CrossedW
<1>14. CrossedW(q) = 1 /\ PiecesW(q) = a \o v
  BY <1>4 DEF PiecesW, Pieces, CrossedW
<1> QED BY <1>4, <1>6, <1>10, <1>12, <1>13, <1>14, Zenon

(***************************************************************************)
(* The same for reads.                                                     *)
(***************************************************************************)
LEMMA TransferReadFlow ==
  ASSUME NEW q, NEW done, ReadInv(q, done), NEW t, t = transferRead(q)
  PROVE  Continues(PiecesR(q), CrossedR(q), PiecesR(t), CrossedR(t))
<1>1. CASE q.wait = <<>> \/ Blocked(q, q.transferPending)
  BY <1>1, ReadPieces, SameFlow DEF transferRead
<1>2. CASE ~(q.wait = <<>> \/ Blocked(q, q.transferPending))
  <2>1. q \in QueueType /\ q.wait \in Seq(PieceType) /\ q.wait # <<>>
        /\ q.transfer \in Seq(PieceType) /\ q.counter \in Nat
    BY <1>2, ReadFields
  <2>2. ~q.transferPending
    <3>1. Head(q.wait) = q.wait[1]
      BY <2>1, HeadAndTail
    <3> QED BY <1>2, <2>1, <3>1 DEF ReadInv, HeadFits, Blocked
  <2>3. PICK w : w = Split(q.wait)
    OBVIOUS
  <2>4. w \in Seq(PieceType) /\ w # <<>> /\ Head(w) = w[1]
    BY <2>1, <2>3, SplitLemma
  <2>5. PICK h, u : h = w[1] /\ u = Tail(w)
    BY Zenon
  <2>6. h \in PieceType /\ u \in Seq(PieceType) /\ Len(u) = Len(w) - 1
        /\ Len(w) \in Nat /\ \A i \in 1 .. Len(u) : u[i] = w[i + 1]
    BY <2>4, <2>5, HeadAndTail
  <2>7. PICK p : p = [h EXCEPT !.id = q.counter]
    BY Zenon
  <2>8. p \in PieceType /\ Alike(p, h)
    BY <2>1, <2>6, <2>7, Zenon DEF PieceType, Alike
  <2>9. PICK y : y = <<p>> \o u /\ y \in Seq(PieceType) /\ y # <<>>
              /\ y[1] = p /\ Tail(y) = u /\ Len(y) = Len(u) + 1
              /\ \A i \in 1 .. Len(u) : y[i + 1] = u[i]
    <3>1. <<p>> \o u \in Seq(PieceType) /\ <<p>> \o u # <<>>
          /\ (<<p>> \o u)[1] = p /\ Tail(<<p>> \o u) = u
          /\ Len(<<p>> \o u) = Len(u) + 1
          /\ \A i \in 1 .. Len(u) : (<<p>> \o u)[i + 1] = u[i]
      BY ONLY <2>6, <2>8
    <3> QED BY <3>1, Zenon
  <2>10. /\ t.wait = y /\ t.transfer = Append(q.transfer, p)
         /\ t.transferPending
    BY <1>2, <2>1, <2>3, <2>4, <2>5, <2>7, <2>9 DEF transferRead, QueueType
  <2>11. Len(q.transfer) \in Nat /\ Len(t.transfer) = Len(q.transfer) + 1
    BY <2>1, <2>8, <2>10
  <2>12. CrossedR(q) = Len(q.transfer) /\ CrossedR(t) = Len(q.transfer)
    BY <2>2, <2>10, <2>11 DEF CrossedR
  <2>13. PiecesR(q) = q.transfer \o q.wait
    BY <2>2, Zenon DEF PiecesR, Pieces, Waiting
  <2>14. PiecesR(t) = Append(q.transfer, y[1]) \o Tail(y)
    BY <2>9, <2>10, Zenon DEF PiecesR, Pieces, Waiting
  <2>15. Len(y) = Len(w) /\ \A i \in 1 .. Len(y) : Alike(y[i], w[i])
    <3>1. Len(y) = Len(w)
      BY <2>6, <2>9
    <3>2. ASSUME NEW i \in 1 .. Len(y) PROVE Alike(y[i], w[i])
      <4>1. CASE i = 1
        BY <2>5, <2>8, <2>9, <4>1
      <4>2. CASE i # 1
        <5>1. PICK j : j = i - 1
          OBVIOUS
        <5>2. j \in 1 .. Len(u) /\ i = j + 1
          BY <2>6, <3>1, <4>2, <5>1
        <5> QED BY <2>6, <2>9, <5>2 DEF Alike
      <4> QED BY <4>1, <4>2
    <3> QED BY <3>1, <3>2
  <2>16. PICK a, o, n : a = q.transfer /\ o = q.wait /\ n = Len(q.transfer)
    BY Zenon
  <2>17. /\ a \in Seq(PieceType) /\ o \in Seq(PieceType) /\ o # <<>>
         /\ Len(y) = Len(Split(o)) /\ n \in Nat /\ n <= Len(a)
         /\ \A i \in 1 .. Len(y) : Alike(y[i], Split(o)[i])
    BY <2>1, <2>3, <2>11, <2>15, <2>16
  <2>18. Continues(a \o o, n, Append(a, y[1]) \o Tail(y), n)
    BY ONLY <2>9, <2>17, FilledFlow, Zenon
  <2> QED BY <2>12, <2>13, <2>14, <2>16, <2>18
<1> QED BY <1>1, <1>2

LEMMA DmaReadFlow ==
  ASSUME NEW q, NEW done, ReadInv(q, done), NEW r \in Nat, NEW size \in Int,
         size # 0, NEW t, t = dmaRead(q, r, size)
  PROVE  Continues(Append(PiecesR(q), FIFOEntry(r, size)), CrossedR(q),
                PiecesR(t), CrossedR(t))
<1>1. PICK p : p = FIFOEntry(r, size)
  OBVIOUS
<1>2. p \in PieceType /\ p.last
  BY <1>1 DEF PieceType, FIFOEntry
<1>3. PICK u : u = [q EXCEPT !.wait = Append(@, p)]
  BY Zenon
<1>4. PICK b : b = q.transferPending
  OBVIOUS
<1>5. q \in QueueType /\ b \in BOOLEAN /\ (b => q.wait # <<>>)
  BY <1>4, ReadFields
<1>6. /\ u \in QueueType /\ u.wait # <<>>
      /\ q.wait # <<>> => u.wait[1] = q.wait[1]
  BY <1>2, <1>3, <1>5, AppendedPiece, Zenon
<1>7. /\ u.insertPending = q.insertPending /\ u.insertDone = q.insertDone
      /\ u.transferPending = q.transferPending /\ u.dma = q.dma
      /\ u.submitCompletion = q.submitCompletion /\ u.counter = q.counter
      /\ u.beginTransfer = q.beginTransfer /\ u.transfer = q.transfer
  BY <1>3, <1>5 DEF QueueType
<1>8. /\ Halfway(u) = Halfway(q)
      /\ Transferred(u, 1) <=> Transferred(q, 1)
      /\ InsertedRead(u, 1) <=> InsertedRead(q, 1)
  BY <1>7, SameHalves
<1>9. Numbered(u)
  BY <1>7 DEF ReadInv, Numbered
<1>10. ReadInv(u, done)
  BY <1>4, <1>6, <1>7, <1>8, <1>9 DEF ReadInv, HeadFits, BeginHasPiece
<1>11. PiecesR(u) = Append(PiecesR(q), p) /\ CrossedR(u) = CrossedR(q)
  <2>1. Pieces(u, b) = Append(Pieces(q, b), p)
    BY ONLY <1>2, <1>3, <1>5, AppendedPieces
  <2> QED BY <1>4, <1>7, <2>1 DEF PiecesR, CrossedR
<1>12. t = transferRead(u)
  BY <1>1, <1>3 DEF dmaRead
<1> QED BY <1>1, <1>10, <1>11, <1>12, TransferReadFlow, Zenon

LEMMA InsertReadFlow ==
  ASSUME NEW q \in QueueType, NEW t,
         t = insertRead(q) \/ t = insertRead([q EXCEPT !.beginTransfer = FALSE])
  PROVE  PiecesR(t) = PiecesR(q) /\ CrossedR(t) = CrossedR(q)
<1>1. t.wait = q.wait /\ t.transfer = q.transfer
      /\ t.transferPending = q.transferPending
  BY Zenon DEF insertRead, QueueType
<1> QED BY <1>1 DEF PiecesR, Pieces, Waiting, CrossedR

LEMMA TransferReadDoneFlow ==
  ASSUME NEW q, NEW done, ReadInv(q, done), q.dma,
         NEW first, first = (Head(q.wait).id \notin done),
         NEW t, t = transferRead(ReadTransferred(q, first))
  PROVE  /\ CrossedR(q) + 1 <= Len(PiecesR(q))
         /\ Head(q.wait) = PiecesR(q)[CrossedR(q) + 1]
         /\ Continues(PiecesR(q), CrossedR(q) + 1, PiecesR(t), CrossedR(t))
<1>1. q \in QueueType /\ q.transferPending /\ q.wait \in Seq(PieceType)
      /\ q.wait # <<>> /\ q.transfer \in Seq(PieceType) /\ q.transfer # <<>>
      /\ Head(q.wait) = q.transfer[Len(q.transfer)]
  <2>1. q \in QueueType /\ q.wait \in Seq(PieceType)
        /\ q.transfer \in Seq(PieceType)
    BY ReadFields
  <2>2. q.transferPending /\ q.wait # <<>> /\ q.transfer # <<>>
        /\ q.wait[1] = q.transfer[Len(q.transfer)]
    BY DEF ReadInv, HeadFits
  <2> QED BY <2>1, <2>2, HeadAndTail
<1>2. PICK n, p : n = Len(q.transfer) /\ p = q.transfer[n]
  BY Zenon
<1>3. n \in Nat /\ n >= 1
  BY <1>1, <1>2
<1>4. PICK u : u = ReadTransferred(q, first)
  OBVIOUS
<1>5. Tail(q.wait) \in Seq(PieceType)
  BY <1>1, HeadAndTail
<1>6. PICK c : c = (q.submitCompletion \/ ~first) /\ c \in BOOLEAN
  BY Zenon
<1>7. /\ u \in QueueType /\ u.wait = Tail(q.wait) /\ u.transfer = q.transfer
      /\ u.insertPending = q.insertPending /\ u.insertDone = q.insertDone
      /\ u.beginTransfer = q.beginTransfer /\ ~u.transferPending /\ ~u.dma
      /\ u.submitCompletion = c /\ u.counter = q.counter
  BY <1>1, <1>4, <1>5, <1>6, Zenon DEF QueueType, ReadTransferred
<1>8. PICK d : ReadInv(u, d)
  <2>1. Numbered(u) /\ BeginHasPiece(u, u.insertPending)
    BY <1>7 DEF ReadInv, Numbered, BeginHasPiece
  <2>2. u.submitCompletion => InsertedRead(u, 1) /\ Transferred(u, 1)
    <3>1. Transferred(u, 1)
      BY <1>7 DEF Transferred
    <3>2. CASE q.submitCompletion
      BY <1>7, <3>1, <3>2 DEF ReadInv, InsertedRead
    <3>3. CASE ~first
      <4>1. p.id \in Halfway(q)
        BY <1>1, <1>2, <3>3, Zenon DEF ReadInv
      <4>2. n \in 1 .. Len(q.transfer) /\ Numbered(q)
        BY <1>2, <1>3 DEF ReadInv
      <4>3. HalfDone(q, n)
        BY <1>1, <1>2, <4>1, <4>2, HalfNoted
      <4>4. InsertedRead(q, n)
        BY <1>1, <1>2, <1>3, <4>3 DEF HalfDone, Transferred
      <4> QED BY <1>7, <3>1, <4>4 DEF InsertedRead
    <3> QED BY <1>6, <1>7, <3>2, <3>3, Zenon
  <2>3. ReadInv(u, Halfway(u))
    BY <1>7, <2>1, <2>2 DEF ReadInv
  <2> QED BY <2>3
<1>9. t = transferRead(u)
  BY <1>4
<1>10. Continues(PiecesR(u), CrossedR(u), PiecesR(t), CrossedR(t))
  BY <1>8, <1>9, TransferReadFlow
<1>11. PiecesR(u) = PiecesR(q)
  BY <1>1, <1>7, Zenon DEF PiecesR, Pieces, Waiting
<1>12. CrossedR(q) = n - 1 /\ CrossedR(u) = n
  BY <1>1, <1>2, <1>7 DEF CrossedR
<1>13. p = PiecesR(q)[n]
  <2>1. PICK a, v : a = q.transfer /\ v = Waiting(q, q.transferPending)
    OBVIOUS
  <2>2. a \in Seq(PieceType) /\ v \in Seq(PieceType) /\ n \in 1 .. Len(a)
    BY <1>1, <1>2, <1>3, <1>5, <2>1 DEF Waiting
  <2>3. (a \o v)[n] = a[n]
    BY ONLY <2>2
  <2> QED BY <1>2, <2>1, <2>3 DEF PiecesR, Pieces
<1>14. n <= Len(PiecesR(q))
  BY <1>10, <1>11, <1>12 DEF Continues
<1>15. CrossedR(q) + 1 = n
  BY <1>3, <1>12
<1> QED BY <1>1, <1>2, <1>10, <1>11, <1>12, <1>13, <1>14, <1>15

LEMMA InsertReadDoneFlow ==
  ASSUME NEW q \in QueueType, NEW first, NEW t, t = ReadInserted(q, first)
  PROVE  PiecesR(t) = PiecesR(q) /\ CrossedR(t) = CrossedR(q)
<1>1. t.wait = q.wait /\ t.transfer = q.transfer
      /\ t.transferPending = q.transferPending
  BY DEF ReadInserted, QueueType
<1> QED BY <1>1 DEF PiecesR, Pieces, Waiting, CrossedR

LEMMA ReadFinishedFlow ==
  ASSUME NEW q, NEW done, ReadInv(q, done), q.transfer # <<>>,
         InsertedRead(q, 1), Transferred(q, 1), ~q.submitCompletion,
         NEW t, t = insertReadDoneNext(q)
  PROVE  /\ CrossedR(q) >= 1 /\ Len(PiecesR(q)) >= 1
         /\ q.transfer[1] = PiecesR(q)[1]
         /\ Continues(Tail(PiecesR(q)), CrossedR(q) - 1, PiecesR(t), CrossedR(t))
<1>1. q \in QueueType /\ q.transfer \in Seq(PieceType)
      /\ q.transferPending \in BOOLEAN /\ (q.transferPending => q.wait # <<>>)
      /\ q.usage \in Int
  BY ReadFields
<1>2. PICK x : x = q.usage - calcSize(Head(q.transfer).size) /\ x \in Int
  <2>1. Head(q.transfer) \in PieceType
    BY <1>1, HeadAndTail
  <2>2. calcSize(Head(q.transfer).size) \in Int
    BY <2>1, PieceFields, CalcSizeType
  <2>3. q.usage - calcSize(Head(q.transfer).size) \in Int
    BY <1>1, <2>2
  <2> QED BY <2>3
<1>3. PICK u : u = [q EXCEPT !.usage = x, !.insertPending = FALSE,
                             !.transfer = Tail(@)]
  OBVIOUS
<1>4. Tail(q.transfer) \in Seq(PieceType)
  BY <1>1, HeadAndTail
<1>5. /\ u \in QueueType /\ u.wait = q.wait /\ u.transfer = Tail(q.transfer)
      /\ ~u.insertPending /\ u.insertDone = q.insertDone
      /\ u.beginTransfer = q.beginTransfer
      /\ u.transferPending = q.transferPending /\ u.dma = q.dma
      /\ ~u.submitCompletion /\ u.counter = q.counter
  BY <1>1, <1>2, <1>3, <1>4, Zenon DEF QueueType
<1>6. q.insertPending /\ ~q.insertDone /\ Numbered(q) /\ done = Halfway(q)
  BY DEF ReadInv, InsertedRead
<1>7. /\ Numbered(u) /\ Halfway(u) = Halfway(q)
      /\ Len(u.transfer) = Len(q.transfer) - 1 /\ Len(q.transfer) \in Nat
      /\ q.transferPending => /\ u.transfer # <<>>
                              /\ u.transfer[Len(u.transfer)]
                                   = q.transfer[Len(q.transfer)]
  BY <1>1, <1>5, <1>6, PoppedHalves, Zenon
<1>8. ReadInv(u, done)
  <2>1. BeginHasPiece(u, u.insertPending)
    BY <1>5, <1>6, <1>7 DEF ReadInv, BeginHasPiece
  <2> QED BY <1>5, <1>6, <1>7, <2>1 DEF ReadInv, HeadFits
<1>9. PICK o : o = IF u.transfer # <<>> /\ ~u.beginTransfer THEN insertRead(u)
                   ELSE u
  OBVIOUS
<1>10. ReadInv(o, done) /\ PiecesR(o) = PiecesR(u) /\ CrossedR(o) = CrossedR(u)
  <2>1. CASE u.transfer # <<>> /\ ~u.beginTransfer
    BY <1>5, <1>8, <1>9, <2>1, InsertReadLemma, InsertReadFlow, Zenon
  <2>2. CASE ~(u.transfer # <<>> /\ ~u.beginTransfer)
    BY <1>8, <1>9, <2>2
  <2> QED BY <2>1, <2>2
<1>11. t = transferRead(o)
  BY <1>2, <1>3, <1>9 DEF insertReadDoneNext
<1>12. Continues(PiecesR(o), CrossedR(o), PiecesR(t), CrossedR(t))
  BY <1>10, <1>11, TransferReadFlow
<1>13. PICK a, v : a = q.transfer /\ v = Waiting(q, q.transferPending)
  OBVIOUS
<1>14. a \in Seq(PieceType) /\ a # <<>> /\ v \in Seq(PieceType)
  BY <1>1, <1>13, UnansweredLemma
<1>15. /\ Len(a \o v) >= 1 /\ a[1] = (a \o v)[1]
       /\ Tail(a \o v) = Tail(a) \o v
  BY ONLY <1>14
<1>16. PiecesR(q) = a \o v /\ PiecesR(u) = Tail(PiecesR(q))
  BY <1>5, <1>13, <1>15, Zenon DEF PiecesR, Pieces, Waiting
<1>17. CrossedR(u) = CrossedR(q) - 1 /\ CrossedR(q) >= 1
  <2>1. Len(a) >= 1 /\ Len(a) \in Nat
    BY <1>14
  <2>2. q.transferPending => 1 < Len(a)
    BY <1>13 DEF Transferred
  <2> QED BY <1>5, <1>7, <1>13, <2>1, <2>2 DEF CrossedR
<1> QED BY <1>10, <1>12, <1>13, <1>15, <1>16, <1>17, Zenon

(***************************************************************************)
(* Requests are added, commands change, or bytes of other requests cross.  *)
(***************************************************************************)
LEMMA CarriesOver ==
  ASSUME NEW a, NEW n, NEW s, NEW d, NEW m, Carries(a, n, s, d, m),
         NEW t, NEW u,
         Len(s.requests) \in Nat, Len(t.requests) \in Nat,
         Len(s.requests) <= Len(t.requests),
         \A r \in 1 .. Len(s.requests) :
           t.requests[r] = s.requests[r] /\ DirectionOf(t, r) = DirectionOf(s, r),
         \A r \in 1 .. Len(s.requests) :
           DirectionOf(s, r) = d => At(u, r) = At(m, r)
  PROVE  Carries(a, n, t, d, u)
<1>1. n \in 0 .. Len(a) /\ Linked(a) /\ Ascending(a) /\ PiecesOf(a, s, d)
      /\ Crossing(a, n, m)
  BY DEF Carries
<1>2. ASSUME NEW i \in 1 .. Len(a)
      PROVE  /\ a[i].req \in 1 .. Len(t.requests)
             /\ t.requests[a[i].req].size # 0
             /\ DirectionOf(t, a[i].req) = d
             /\ a[i].last => a[i].addr + a[i].size = t.requests[a[i].req].size
             /\ At(u, a[i].req) = At(m, a[i].req)
  <2>1. PICK r : r = a[i].req
    OBVIOUS
  <2>2. /\ r \in 1 .. Len(s.requests) /\ s.requests[r].size # 0
        /\ DirectionOf(s, r) = d
        /\ a[i].last => a[i].addr + a[i].size = s.requests[r].size
    BY <1>1, <2>1 DEF PiecesOf
  <2>3. /\ t.requests[r] = s.requests[r] /\ DirectionOf(t, r) = d
        /\ At(u, r) = At(m, r)
    BY <2>2
  <2>4. r \in 1 .. Len(t.requests)
    BY <2>2
  <2> QED BY <2>1, <2>2, <2>3, <2>4
<1>3. PiecesOf(a, t, d)
  BY <1>2 DEF PiecesOf
<1>4. Crossing(a, n, u)
  <2>1. \A i \in n + 1 .. Len(a) : i \in 1 .. Len(a)
    BY <1>1
  <2> QED BY <1>1, <1>2, <2>1 DEF Crossing
<1> QED BY <1>1, <1>3, <1>4 DEF Carries

(***************************************************************************)
(* A request is put behind the others.                                     *)
(***************************************************************************)
LEMMA CarriesAppended ==
  ASSUME NEW a \in Seq(PieceType), NEW n, NEW s, NEW d, NEW m,
         Carries(a, n, s, d, m), Len(s.requests) \in Nat,
         NEW t, Len(t.requests) = Len(s.requests) + 1,
         \A r \in 1 .. Len(s.requests) :
           t.requests[r] = s.requests[r] /\ DirectionOf(t, r) = DirectionOf(s, r),
         NEW p \in PieceType, p.req = Len(s.requests) + 1, p.addr = 0, p.last,
         p.size = t.requests[p.req].size, p.size # 0,
         DirectionOf(t, p.req) = d, At(m, p.req) = 0
  PROVE  /\ Carries(Append(a, p), n, t, d, m)
         /\ Behind(Append(a, p), n) = Behind(a, n) \union {p.req}
         /\ Behind(Append(a, p), 0) = Behind(a, 0) \union {p.req}
<1>1. Carries(a, n, t, d, m)
  BY CarriesOver
<1>2. PICK l, b, r : l = Len(a) /\ b = Append(a, p) /\ r = p.req
  BY Zenon
<1>3. /\ l \in Nat /\ Len(b) = l + 1 /\ b[l + 1] = p
      /\ \A i \in 1 .. l : b[i] = a[i]
  <2>1. /\ Len(a) \in Nat /\ Len(Append(a, p)) = Len(a) + 1
        /\ Append(a, p)[Len(a) + 1] = p
        /\ \A i \in 1 .. Len(a) : Append(a, p)[i] = a[i]
    BY ONLY a \in Seq(PieceType), p \in PieceType
  <2> QED BY <1>2, <2>1
<1>4. /\ n \in 0 .. l /\ Linked(a) /\ Ascending(a) /\ PiecesOf(a, t, d)
      /\ Crossing(a, n, m)
  BY <1>1, <1>2 DEF Carries
<1>5. \A i \in 1 .. l : a[i].req \in 1 .. Len(s.requests)
  BY <1>2 DEF Carries, PiecesOf
<1>6. \A i \in 1 .. l + 1 : i \in 1 .. l \/ i = l + 1
  BY <1>3
<1>7. Linked(b)
  <2>1. ASSUME NEW i \in 1 .. Len(b), ~b[i].last
        PROVE  /\ i < Len(b) /\ b[i + 1].req = b[i].req
               /\ b[i + 1].addr = b[i].addr + b[i].size
    <3>1. i \in 1 .. l
      BY <1>3, <1>6, <2>1
    <3>2. i < l /\ a[i + 1].req = a[i].req /\ a[i + 1].addr = a[i].addr + a[i].size
      BY <1>2, <1>3, <1>4, <2>1, <3>1, Zenon DEF Linked
    <3>3. i + 1 \in 1 .. l /\ i < Len(b)
      BY <1>3, <3>1, <3>2
    <3> QED BY <1>3, <3>1, <3>2, <3>3
  <2> QED BY <2>1 DEF Linked
<1>8. Ascending(b)
  <2>1. ASSUME NEW i \in 1 .. Len(b), NEW j \in 1 .. Len(b), i < j
        PROVE  b[i].req <= b[j].req /\ (b[i].last => b[i].req < b[j].req)
    <3>1. i \in 1 .. l
      BY <1>3, <2>1
    <3>2. CASE j \in 1 .. l
      BY <1>2, <1>3, <1>4, <2>1, <3>1, <3>2 DEF Ascending
    <3>3. CASE j = l + 1
      <4>1. b[j].req = Len(s.requests) + 1 /\ b[i].req \in 1 .. Len(s.requests)
        BY <1>2, <1>3, <1>5, <3>1, <3>3
      <4> QED BY <4>1
    <3> QED BY <1>3, <1>6, <3>2, <3>3
  <2> QED BY <2>1 DEF Ascending
<1>9. PiecesOf(b, t, d)
  <2>1. ASSUME NEW i \in 1 .. Len(b)
        PROVE  /\ b[i].req \in 1 .. Len(t.requests)
               /\ t.requests[b[i].req].size # 0
               /\ DirectionOf(t, b[i].req) = d
               /\ b[i].last => b[i].addr + b[i].size = t.requests[b[i].req].size
    <3>1. CASE i \in 1 .. l
      BY <1>2, <1>3, <1>4, <3>1 DEF PiecesOf
    <3>2. CASE i = l + 1
      <4>1. PICK z : z = p.size
        OBVIOUS
      <4>2. z \in Int /\ 0 + z = z
        BY <4>1, PieceFields
      <4>3. r \in 1 .. Len(t.requests)
        BY <1>2
      <4> QED BY <1>2, <1>3, <3>2, <4>1, <4>2, <4>3, Zenon
    <3> QED BY <1>3, <1>6, <3>1, <3>2
  <2> QED BY <2>1, Zenon DEF PiecesOf
<1>10. Crossing(b, n, m)
  <2>1. ASSUME NEW i \in n + 1 .. Len(b), i = n + 1 \/ b[i - 1].last
        PROVE  b[i].addr = At(m, b[i].req)
    <3>1. CASE i \in 1 .. l
      <4>1. i \in n + 1 .. l /\ (i # n + 1 => i - 1 \in 1 .. l)
        BY <1>3, <1>4, <3>1
      <4> QED BY <1>2, <1>3, <1>4, <2>1, <3>1, <4>1 DEF Crossing
    <3>2. CASE i = l + 1
      BY <1>2, <1>3, <3>2
    <3>3. i \in 1 .. l + 1
      BY <1>3, <1>4
    <3> QED BY <1>6, <3>1, <3>2, <3>3
  <2> QED BY <2>1 DEF Crossing
<1>11. ASSUME NEW k \in Nat, k <= l
       PROVE  Behind(b, k) = Behind(a, k) \union {r}
  <2>1. ASSUME NEW i \in k + 1 .. Len(b)
        PROVE  b[i].req \in Behind(a, k) \union {r}
    <3>1. i \in 1 .. l + 1 /\ (i \in 1 .. l => i \in k + 1 .. Len(a))
      BY <1>2, <1>3
    <3> QED BY <1>2, <1>3, <1>6, <3>1 DEF Behind
  <2>2. ASSUME NEW i \in k + 1 .. Len(a)
        PROVE  a[i].req \in Behind(b, k)
    <3>1. i \in 1 .. l /\ i \in k + 1 .. Len(b)
      BY <1>2, <1>3
    <3> QED BY <1>3, <3>1 DEF Behind
  <2>3. r \in Behind(b, k)
    <3>1. l + 1 \in k + 1 .. Len(b)
      BY <1>3, <1>11
    <3> QED BY <1>2, <1>3, <3>1 DEF Behind
  <2> QED BY <2>1, <2>2, <2>3, Zenon DEF Behind
<1>12. n \in 0 .. Len(b) /\ n \in Nat /\ n <= l
  BY <1>3, <1>4
<1>13. Carries(b, n, t, d, m)
  BY <1>7, <1>8, <1>9, <1>10, <1>12 DEF Carries
<1>14. Behind(b, n) = Behind(a, n) \union {r} /\ Behind(b, 0) = Behind(a, 0) \union {r}
  BY <1>3, <1>11, <1>12
<1> QED BY <1>2, <1>13, <1>14

(***************************************************************************)
(* The bus has taken a piece, as in Moved.                                 *)
(***************************************************************************)
MovedBy(m, p) == [m EXCEPT ![p.req] = IF p.addr = @ THEN @ + p.size ELSE Torn]

(***************************************************************************)
(* The next piece crosses the bus: its bytes follow those before, and its  *)
(* request is complete when it is the last one of it.                      *)
(***************************************************************************)
LEMMA CarriesMoved ==
  ASSUME NEW a \in Seq(PieceType), NEW n, NEW s, NEW d, NEW m \in Seq(Int),
         Carries(a, n, s, d, m), NEW k, k = n + 1, k <= Len(a),
         NEW p, p = a[k], p.req <= Len(m),
         NEW u, u = MovedBy(m, p)
  PROVE  /\ Carries(a, k, s, d, u)
         /\ u \in Seq(Int) /\ Len(u) = Len(m)
         /\ p.req \in 1 .. Len(s.requests) /\ DirectionOf(s, p.req) = d
         /\ \A r \in Nat : r # p.req => At(u, r) = At(m, r)
         /\ p.req \notin Behind(a, k) => At(u, p.req) = s.requests[p.req].size
         /\ Behind(a, n) = Behind(a, k) \union {p.req}
<1>1. PICK l, r : l = Len(a) /\ r = p.req
  OBVIOUS
<1>2. /\ n \in 0 .. l /\ Linked(a) /\ Ascending(a) /\ PiecesOf(a, s, d)
      /\ Crossing(a, n, m)
  BY <1>1 DEF Carries
<1>3. l \in Nat /\ n \in Nat /\ k \in 1 .. l /\ k \in n + 1 .. l /\ p = a[k]
      /\ k <= l
  BY <1>1, <1>2
<1>4. \A i \in 1 .. l : a[i] \in PieceType /\ a[i].req \in Nat
                        /\ a[i].addr \in Int /\ a[i].size \in Int
                        /\ a[i].last \in BOOLEAN
  BY <1>1, PieceFields
<1>5. /\ r \in 1 .. Len(s.requests) /\ DirectionOf(s, r) = d
      /\ p.last => p.addr + p.size = s.requests[r].size
      /\ p.addr = At(m, r)
  <2>1. p.addr = At(m, r)
    BY <1>1, <1>2, <1>3 DEF Crossing
  <2> QED BY <1>1, <1>2, <1>3, <2>1, Zenon DEF PiecesOf
<1>6. r \in 1 .. Len(m) /\ p.addr = m[r] /\ p.addr \in Int /\ p.size \in Int
  <2>1. r \in Nat /\ r >= 1 /\ r <= Len(m) /\ Len(m) \in Nat
    BY <1>1, <1>3, <1>4, <1>5
  <2> QED BY <1>3, <1>4, <1>5, <2>1 DEF At
<1>7. PICK z : z = p.addr + p.size /\ z \in Int
  <2>1. p.addr + p.size \in Int
    BY <1>6
  <2> QED BY <2>1
<1>8. u = [m EXCEPT ![r] = z]
  BY <1>1, <1>6, <1>7 DEF MovedBy
<1>9. u \in Seq(Int) /\ Len(u) = Len(m) /\ u[r] = z
      /\ \A i \in 1 .. Len(m) : i # r => u[i] = m[i]
  <2>1. r \in 1 .. Len(m)
    BY <1>6
  <2> QED BY ONLY <1>7, <1>8, <2>1, m \in Seq(Int)
<1>10. \A i \in Nat : i # r => At(u, i) = At(m, i)
  <2>1. ASSUME NEW i \in Nat, i # r PROVE At(u, i) = At(m, i)
    <3>1. CASE i \in 1 .. Len(m)
      BY <1>9, <2>1, <3>1, Zenon DEF At
    <3>2. CASE i > Len(m)
      BY <1>9, <3>2 DEF At
    <3>3. CASE i = 0
      <4>1. DOMAIN u = DOMAIN m
        BY <1>8
      <4>2. u[0] = m[0]
        BY <1>6, <1>8, <4>1
      <4> QED BY <1>9, <3>3, <4>2 DEF At
    <3> QED BY <3>1, <3>2, <3>3
  <2> QED BY <2>1
<1>11. At(u, r) = z
  BY <1>6, <1>9 DEF At
<1>12. Crossing(a, k, u)
  <2>1. ASSUME NEW i \in k + 1 .. l, i = k + 1 \/ a[i - 1].last
        PROVE  a[i].addr = At(u, a[i].req)
    <3>1. i \in 1 .. l /\ i \in n + 1 .. l /\ k < i /\ i - 1 \in 1 .. l
          /\ k + 1 - 1 = k
      BY <1>1, <1>3
    <3>2. a[k].req <= a[i].req /\ (a[k].last => a[k].req < a[i].req)
      BY <1>1, <1>2, <1>3, <3>1 DEF Ascending
    <3>3. CASE a[i - 1].last
      <4>1. a[i].addr = At(m, a[i].req)
        BY <1>1, <1>2, <3>1, <3>3 DEF Crossing
      <4>2. a[i].req # r
        <5>1. CASE i = k + 1
          BY <1>1, <1>3, <1>4, <3>1, <3>2, <3>3, <5>1
        <5>2. CASE i # k + 1
          <6>1. k < i - 1 /\ i - 1 < i
            BY <1>3, <3>1, <5>2
          <6>2. a[k].req <= a[i - 1].req /\ a[i - 1].req < a[i].req
            BY <1>1, <1>2, <1>3, <3>1, <3>3, <6>1 DEF Ascending
          <6>3. PICK x, y, w : x = a[k].req /\ y = a[i - 1].req /\ w = a[i].req
            OBVIOUS
          <6>4. x \in Nat /\ y \in Nat /\ w \in Nat /\ x <= y /\ y < w
            BY <1>3, <1>4, <3>1, <6>2, <6>3, Zenon
          <6>5. w # x
            BY <6>4
          <6> QED BY <1>1, <1>3, <6>3, <6>5
        <5> QED BY <5>1, <5>2
      <4> QED BY <1>4, <1>10, <3>1, <4>1, <4>2
    <3>4. CASE ~a[i - 1].last
      <4>1. i = k + 1 /\ i - 1 = k
        BY <1>3, <2>1, <3>4
      <4>2. a[i].req = a[k].req /\ a[i].addr = a[k].addr + a[k].size
        BY <1>1, <1>2, <1>3, <3>4, <4>1 DEF Linked
      <4> QED BY <1>1, <1>3, <1>7, <1>11, <4>2
    <3> QED BY <3>3, <3>4
  <2> QED BY <1>1, <2>1 DEF Crossing
<1>13. Carries(a, k, s, d, u)
  BY <1>1, <1>2, <1>3, <1>12 DEF Carries
<1>14. r \notin Behind(a, k) => At(u, r) = s.requests[r].size
  <2>1. CASE p.last
    BY <1>5, <1>7, <1>11, <2>1
  <2>2. CASE ~p.last
    <3>1. k < l /\ a[k + 1].req = r
      BY <1>1, <1>2, <1>3, <2>2 DEF Linked
    <3>2. k + 1 \in k + 1 .. Len(a)
      BY <1>1, <1>3, <3>1
    <3> QED BY <3>1, <3>2 DEF Behind
  <2> QED BY <2>1, <2>2
<1>15. Behind(a, n) = Behind(a, k) \union {r}
  <2>1. \A i \in n + 1 .. Len(a) : i = k \/ i \in k + 1 .. Len(a)
    BY <1>1, <1>3
  <2>2. \A i \in k + 1 .. Len(a) : i \in n + 1 .. Len(a)
    BY <1>1, <1>3
  <2>3. k \in n + 1 .. Len(a)
    BY <1>1, <1>3
  <2> QED BY <1>1, <1>3, <2>1, <2>2, <2>3, Zenon DEF Behind
<1> QED BY <1>1, <1>5, <1>9, <1>10, <1>13, <1>14, <1>15

(***************************************************************************)
(* The first piece leaves the queue: if it is not the last one of its      *)
(* request, there is another one of it.                                    *)
(***************************************************************************)
LEMMA CarriesPopped ==
  ASSUME NEW a \in Seq(PieceType), NEW n, NEW s, NEW d, NEW m,
         Carries(a, n, s, d, m), n >= 1, Len(a) >= 1
  PROVE  /\ Tail(a) \in Seq(PieceType)
         /\ Carries(Tail(a), n - 1, s, d, m)
         /\ Behind(Tail(a), n - 1) = Behind(a, n)
         /\ a[1].req \in Behind(a, 0)
         /\ Behind(Tail(a), 0) = IF a[1].last THEN Behind(a, 0) \ {a[1].req}
                                 ELSE Behind(a, 0)
<1>1. PICK l, b : l = Len(a) /\ b = Tail(a)
  BY Zenon
<1>2. l \in Nat /\ l >= 1 /\ a # <<>>
  BY <1>1
<1>3. b \in Seq(PieceType) /\ Len(b) = l - 1
      /\ \A i \in 1 .. l - 1 : b[i] = a[i + 1]
  <2>1. Tail(a) \in Seq(PieceType) /\ Len(Tail(a)) = Len(a) - 1
        /\ \A i \in 1 .. Len(a) - 1 : Tail(a)[i] = a[i + 1]
    BY ONLY <1>2, a \in Seq(PieceType)
  <2> QED BY <1>1, <2>1
<1>4. /\ n \in 1 .. l /\ Linked(a) /\ Ascending(a) /\ PiecesOf(a, s, d)
      /\ Crossing(a, n, m)
  BY <1>1 DEF Carries
<1>5. \A i \in 1 .. l : a[i].req \in Nat
  BY <1>1, PieceFields
<1>6. \A i \in 1 .. l - 1 : i + 1 \in 1 .. l
  BY <1>2
<1>7. Linked(b)
  <2>1. ASSUME NEW i \in 1 .. l - 1, ~b[i].last
        PROVE  /\ i < l - 1 /\ b[i + 1].req = b[i].req
               /\ b[i + 1].addr = b[i].addr + b[i].size
    <3>1. PICK j : j = i + 1
      OBVIOUS
    <3>2. j \in 1 .. l /\ ~a[j].last
      BY <1>3, <1>6, <2>1, <3>1
    <3>3. j < l /\ a[j + 1].req = a[j].req /\ a[j + 1].addr = a[j].addr + a[j].size
      BY <1>1, <1>4, <3>2 DEF Linked
    <3>4. i < l - 1 /\ i + 1 \in 1 .. l - 1
      BY <1>2, <3>1, <3>3
    <3> QED BY <1>3, <3>1, <3>3, <3>4
  <2> QED BY <1>3, <2>1 DEF Linked
<1>8. Ascending(b)
  <2>1. ASSUME NEW i \in 1 .. l - 1, NEW j \in 1 .. l - 1, i < j
        PROVE  b[i].req <= b[j].req /\ (b[i].last => b[i].req < b[j].req)
    <3>1. i + 1 \in 1 .. l /\ j + 1 \in 1 .. l /\ i + 1 < j + 1
      BY <1>6, <2>1
    <3> QED BY <1>1, <1>3, <1>4, <3>1 DEF Ascending
  <2> QED BY <1>3, <2>1 DEF Ascending
<1>9. PiecesOf(b, s, d)
  BY <1>1, <1>3, <1>4, <1>6 DEF PiecesOf
<1>10. Crossing(b, n - 1, m)
  <2>1. ASSUME NEW i \in n .. l - 1, i = n \/ b[i - 1].last
        PROVE  b[i].addr = At(m, b[i].req)
    <3>1. PICK j : j = i + 1
      OBVIOUS
    <3>2. j \in n + 1 .. l /\ i \in 1 .. l - 1 /\ b[i] = a[j]
      BY <1>2, <1>3, <1>4, <3>1
    <3>3. j = n + 1 \/ a[j - 1].last
      <4>1. CASE i = n
        BY <3>1, <4>1
      <4>2. CASE i # n
        <5>1. i - 1 \in 1 .. l - 1 /\ (i - 1) + 1 = j - 1
          <6>1. i \in Int /\ n <= i /\ i <= l - 1 /\ n \in Int /\ 1 <= n
            BY <1>2, <1>4
          <6> QED BY ONLY <1>2, <3>1, <4>2, <6>1
        <5>2. b[i - 1] = a[j - 1]
          BY <1>3, <5>1
        <5> QED BY <2>1, <4>2, <5>2
      <4> QED BY <4>1, <4>2
    <3> QED BY <1>1, <1>4, <3>2, <3>3 DEF Crossing
  <2>2. n - 1 + 1 = n
    BY <1>4
  <2> QED BY <1>3, <2>1, <2>2 DEF Crossing
<1>11. ASSUME NEW k \in 1 .. l
       PROVE  Behind(b, k - 1) = Behind(a, k)
  <2>1. ASSUME NEW i \in k .. l - 1 PROVE b[i].req \in Behind(a, k)
    <3>1. i \in 1 .. l - 1 /\ i + 1 \in k + 1 .. Len(a)
      BY <1>1, <1>2
    <3> QED BY <1>3, <3>1 DEF Behind
  <2>2. ASSUME NEW i \in k + 1 .. Len(a) PROVE a[i].req \in Behind(b, k - 1)
    <3>1. PICK j : j = i - 1
      OBVIOUS
    <3>2. j \in k - 1 + 1 .. Len(b) /\ j \in 1 .. l - 1 /\ i = j + 1
      BY <1>1, <1>2, <1>3, <3>1
    <3> QED BY <1>3, <3>2 DEF Behind
  <2>3. \A i \in k - 1 + 1 .. Len(b) : i \in k .. l - 1
    BY <1>3
  <2> QED BY <2>1, <2>2, <2>3, Zenon DEF Behind
<1>12. Behind(b, n - 1) = Behind(a, n) /\ Behind(b, 0) = Behind(a, 1)
  <2>1. n \in 1 .. l /\ 1 \in 1 .. l /\ 1 - 1 = 0
    BY <1>2, <1>4
  <2> QED BY <1>11, <2>1
<1>13. Behind(a, 0) = Behind(a, 1) \union {a[1].req}
  <2>1. /\ \A i \in 0 + 1 .. Len(a) : i = 1 \/ i \in 1 + 1 .. Len(a)
        /\ \A i \in 1 + 1 .. Len(a) : i \in 0 + 1 .. Len(a)
        /\ 1 \in 0 + 1 .. Len(a)
    BY <1>1, <1>2
  <2> QED BY <2>1 DEF Behind
<1>14. a[1].last => a[1].req \notin Behind(a, 1)
  <2>1. ASSUME NEW i \in 1 + 1 .. Len(a), a[1].last
        PROVE  a[i].req # a[1].req
    <3>1. i \in 1 .. l /\ 1 \in 1 .. l /\ 1 < i
      BY <1>1, <1>2
    <3>2. a[1].req < a[i].req
      BY <1>1, <1>4, <2>1, <3>1 DEF Ascending
    <3> QED BY <1>5, <3>1, <3>2
  <2> QED BY <2>1 DEF Behind
<1>15. ~a[1].last => a[1].req \in Behind(a, 1)
  <2>1. SUFFICES ASSUME ~a[1].last PROVE a[1].req \in Behind(a, 1)
    OBVIOUS
  <2>2. 1 < l /\ a[1 + 1].req = a[1].req
    BY <1>1, <1>2, <1>4, <2>1 DEF Linked
  <2>3. 1 + 1 \in 1 + 1 .. Len(a)
    BY <1>1, <1>2, <2>2
  <2> QED BY <2>2, <2>3 DEF Behind
<1>16. n - 1 \in 0 .. Len(b)
  BY <1>2, <1>3, <1>4
<1>17. Carries(b, n - 1, s, d, m)
  BY <1>7, <1>8, <1>9, <1>10, <1>16 DEF Carries
<1> QED BY <1>1, <1>3, <1>12, <1>13, <1>14, <1>15, <1>17, Zenon

LEMMA FlowSwaps ==
  ASSUME NEW a, NEW n, NEW d, NEW b, NEW l, NEW e, NEW s, NEW m,
         Flow(a, n, d, b, l, e, s, m)
  PROVE  Flow(b, l, e, a, n, d, s, m)
BY DEF Flow

LEMMA FlowRefines ==
  ASSUME NEW a, NEW n, NEW d, NEW b, NEW l, NEW e, NEW s, NEW m,
         Flow(a, n, d, b, l, e, s, m), NEW c, NEW k, Continues(a, n, c, k)
  PROVE  Flow(c, k, d, b, l, e, s, m) /\ Behind(c, 0) = Behind(a, 0)
<1>1. a \in Seq(PieceType) /\ c \in Seq(PieceType) /\ n \in Nat /\ k = n
      /\ Refined(a, c, n) /\ Carries(a, n, s, d, m)
  BY DEF Continues, Flow
<1>2. /\ Carries(c, n, s, d, m)
      /\ Behind(c, n) = Behind(a, n) /\ Behind(c, 0) = Behind(a, 0)
  BY ONLY <1>1, RefinedKeeps
<1> QED BY <1>1, <1>2 DEF Flow

(***************************************************************************)
(* More requests, none of them with a byte to move.                        *)
(***************************************************************************)
Extends(s, t) ==
  /\ Len(s.requests) \in Nat /\ Len(t.requests) \in Nat
  /\ Len(s.requests) <= Len(t.requests)
  /\ \A r \in 1 .. Len(s.requests) :
       t.requests[r] = s.requests[r] /\ DirectionOf(t, r) = DirectionOf(s, r)

LEMMA FlowOver ==
  ASSUME NEW a, NEW n, NEW d, NEW b, NEW l, NEW e, NEW s, NEW m,
         Flow(a, n, d, b, l, e, s, m), NEW t, Extends(s, t),
         NEW u \in Seq(Int), Len(u) <= Len(t.requests),
         \A r \in 1 .. Len(s.requests) : At(u, r) = At(m, r),
         \A r \in Len(s.requests) + 1 .. Len(t.requests) :
           At(u, r) = t.requests[r].size
  PROVE  Flow(a, n, d, b, l, e, t, u)
<1>1. Carries(a, n, t, d, u) /\ Carries(b, l, t, e, u)
  <2>1. Carries(a, n, s, d, m) /\ Carries(b, l, s, e, m)
    BY DEF Flow
  <2> QED BY <2>1, CarriesOver, Zenon DEF Extends
<1>2. ASSUME NEW r \in 1 .. Len(t.requests), r \notin Behind(a, n),
             r \notin Behind(b, l)
      PROVE  At(u, r) = t.requests[r].size
  <2>1. CASE r \in 1 .. Len(s.requests)
    BY <1>2, <2>1, Zenon DEF Flow, Extends
  <2>2. CASE r \in Len(s.requests) + 1 .. Len(t.requests)
    BY <2>2
  <2> QED BY <2>1, <2>2 DEF Extends
<1> QED BY <1>1, <1>2 DEF Flow

(***************************************************************************)
(* A request is put behind the others of its direction.                    *)
(***************************************************************************)
LEMMA FlowAppended ==
  ASSUME NEW a, NEW n, NEW d, NEW b, NEW l, NEW e, NEW s, NEW m,
         Flow(a, n, d, b, l, e, s, m), NEW t, Extends(s, t),
         Len(t.requests) = Len(s.requests) + 1,
         NEW p \in PieceType, p.req = Len(s.requests) + 1, p.addr = 0, p.last,
         p.size = t.requests[p.req].size, p.size # 0, DirectionOf(t, p.req) = d
  PROVE  /\ Flow(Append(a, p), n, d, b, l, e, t, m)
         /\ Behind(Append(a, p), 0) = Behind(a, 0) \union {p.req}
<1>1. /\ m \in Seq(Int) /\ Len(m) <= Len(s.requests) /\ Len(m) \in Nat
      /\ Len(s.requests) \in Nat
      /\ a \in Seq(PieceType) /\ Carries(a, n, s, d, m)
      /\ b \in Seq(PieceType) /\ Carries(b, l, s, e, m)
  BY DEF Flow, Extends
<1>2. At(m, p.req) = 0
  BY <1>1 DEF At
<1>3. /\ Carries(Append(a, p), n, t, d, m)
      /\ Behind(Append(a, p), n) = Behind(a, n) \union {p.req}
      /\ Behind(Append(a, p), 0) = Behind(a, 0) \union {p.req}
  BY <1>1, <1>2, CarriesAppended DEF Extends
<1>4. Carries(b, l, t, e, m)
  BY <1>1, CarriesOver, Zenon DEF Extends
<1>5. Append(a, p) \in Seq(PieceType)
  BY ONLY <1>1, p \in PieceType
<1>6. ASSUME NEW r \in 1 .. Len(t.requests), r \notin Behind(Append(a, p), n),
             r \notin Behind(b, l)
      PROVE  At(m, r) = t.requests[r].size
  <2>1. r # p.req /\ r \notin Behind(a, n)
    BY <1>3, <1>6
  <2>2. r \in 1 .. Len(s.requests)
    BY <1>1, <2>1
  <2> QED BY <1>6, <2>1, <2>2, Zenon DEF Flow, Extends
<1>7. Len(m) <= Len(t.requests)
  BY <1>1
<1> QED BY <1>1, <1>3, <1>4, <1>5, <1>6, <1>7 DEF Flow

(***************************************************************************)
(* A piece crosses the bus; one that has crossed leaves the queue.         *)
(***************************************************************************)
LEMMA FlowMoved ==
  ASSUME NEW a, NEW n, NEW d, NEW b, NEW l, NEW e, NEW s, NEW m,
         Flow(a, n, d, b, l, e, s, m), Len(s.requests) \in Nat, d # e,
         NEW k, k = n + 1, k <= Len(a), NEW p, p = a[k], p.req <= Len(m),
         NEW u, u = MovedBy(m, p)
  PROVE  Flow(a, k, d, b, l, e, s, u) /\ Len(u) = Len(m)
<1>1. /\ m \in Seq(Int) /\ Len(m) <= Len(s.requests)
      /\ a \in Seq(PieceType) /\ Carries(a, n, s, d, m)
      /\ b \in Seq(PieceType) /\ Carries(b, l, s, e, m)
  BY DEF Flow
<1>2. /\ Carries(a, k, s, d, u)
      /\ u \in Seq(Int) /\ Len(u) = Len(m)
      /\ p.req \in 1 .. Len(s.requests) /\ DirectionOf(s, p.req) = d
      /\ \A r \in Nat : r # p.req => At(u, r) = At(m, r)
      /\ p.req \notin Behind(a, k) => At(u, p.req) = s.requests[p.req].size
      /\ Behind(a, n) = Behind(a, k) \union {p.req}
  <2>1. /\ k = n + 1 /\ k <= Len(a) /\ p = a[k] /\ p.req <= Len(m)
        /\ u = MovedBy(m, p)
    OBVIOUS
  <2>2. Carries(a, k, s, d, u)
    BY ONLY <1>1, <2>1, CarriesMoved, SMTT(30)
  <2>3. u \in Seq(Int) /\ Len(u) = Len(m)
    BY ONLY <1>1, <2>1, CarriesMoved, SMTT(30)
  <2>4. p.req \in 1 .. Len(s.requests) /\ DirectionOf(s, p.req) = d
    BY ONLY <1>1, <2>1, CarriesMoved, SMTT(30)
  <2>5. \A r \in Nat : r # p.req => At(u, r) = At(m, r)
    BY ONLY <1>1, <2>1, CarriesMoved, SMTT(30)
  <2>6. p.req \notin Behind(a, k) => At(u, p.req) = s.requests[p.req].size
    BY ONLY <1>1, <2>1, CarriesMoved, SMTT(30)
  <2>7. Behind(a, n) = Behind(a, k) \union {p.req}
    BY ONLY <1>1, <2>1, CarriesMoved, SMTT(30)
  <2> QED BY ONLY <2>2, <2>3, <2>4, <2>5, <2>6, <2>7
<1>3. Carries(b, l, s, e, u)
  <2>1. \A r \in 1 .. Len(s.requests) :
          DirectionOf(s, r) = e => At(u, r) = At(m, r)
    <3>1. \A r \in 1 .. Len(s.requests) : r \in Nat
      OBVIOUS
    <3>2. d # e /\ DirectionOf(s, p.req) = d
      BY <1>2
    <3> QED BY ONLY <1>2, <3>1, <3>2
  <2>2. Len(s.requests) <= Len(s.requests)
    OBVIOUS
  <2> QED BY <1>1, <2>1, <2>2, CarriesOver
<1>4. ASSUME NEW r \in 1 .. Len(s.requests), r \notin Behind(a, k),
             r \notin Behind(b, l)
      PROVE  At(u, r) = s.requests[r].size
  <2>1. CASE r = p.req
    BY <1>2, <1>4, <2>1
  <2>2. CASE r # p.req
    <3>1. r \in Nat /\ r \notin Behind(a, n)
      BY <1>2, <1>4, <2>2
    <3>2. At(m, r) = s.requests[r].size
      BY <1>4, <3>1 DEF Flow
    <3> QED BY ONLY <1>2, <2>2, <3>1, <3>2
  <2> QED BY <2>1, <2>2
<1> QED BY <1>1, <1>2, <1>3, <1>4 DEF Flow

LEMMA FlowPopped ==
  ASSUME NEW a, NEW n, NEW d, NEW b, NEW l, NEW e, NEW s, NEW m,
         Flow(a, n, d, b, l, e, s, m), n >= 1, Len(a) >= 1
  PROVE  /\ Flow(Tail(a), n - 1, d, b, l, e, s, m)
         /\ a[1].req \in Behind(a, 0)
         /\ Behind(Tail(a), 0) = IF a[1].last THEN Behind(a, 0) \ {a[1].req}
                                 ELSE Behind(a, 0)
<1>1. a \in Seq(PieceType) /\ Carries(a, n, s, d, m)
  BY DEF Flow
<1>2. /\ Tail(a) \in Seq(PieceType)
      /\ Carries(Tail(a), n - 1, s, d, m)
      /\ Behind(Tail(a), n - 1) = Behind(a, n)
      /\ a[1].req \in Behind(a, 0)
      /\ Behind(Tail(a), 0) = IF a[1].last THEN Behind(a, 0) \ {a[1].req}
                              ELSE Behind(a, 0)
  BY <1>1, CarriesPopped
<1> QED BY <1>2 DEF Flow

(***************************************************************************)
(* A request belongs to one direction, so it is in one queue.              *)
(***************************************************************************)
LEMMA FlowDirections ==
  ASSUME NEW a, NEW n, NEW d, NEW b, NEW l, NEW e, NEW s, NEW m,
         Flow(a, n, d, b, l, e, s, m)
  PROVE  /\ \A r \in Behind(a, 0) : r \in 1 .. Len(s.requests)
                                    /\ DirectionOf(s, r) = d
                                    /\ s.requests[r].size # 0
         /\ \A r \in Behind(b, 0) : r \in 1 .. Len(s.requests)
                                    /\ DirectionOf(s, r) = e
                                    /\ s.requests[r].size # 0
<1>1. PiecesOf(a, s, d) /\ PiecesOf(b, s, e)
  BY DEF Flow, Carries
<1>2. /\ \A i \in 0 + 1 .. Len(a) : i \in 1 .. Len(a)
      /\ \A i \in 0 + 1 .. Len(b) : i \in 1 .. Len(b)
  OBVIOUS
<1> QED BY <1>1, <1>2 DEF PiecesOf, Behind

-----------------------------------------------------------------------------
(***************************************************************************)
(* What the firmware does, and the flow of the queues.                     *)
(***************************************************************************)
LEMMA SameQueues ==
  ASSUME NEW s, NEW m, QueueFlow(s, m), Len(s.requests) \in Nat,
         NEW t, t.write = s.write, t.read = s.read, t.requests = s.requests,
         \A r \in 1 .. Len(s.requests) : DirectionOf(t, r) = DirectionOf(s, r)
  PROVE  QueueFlow(t, m) /\ Requested(t) = Requested(s)
<1>1. Extends(s, t)
  BY DEF Extends
<1>2. PICK a, n, b, l :
        /\ a = PiecesW(s.write) /\ n = CrossedW(s.write)
        /\ b = PiecesR(s.read) /\ l = CrossedR(s.read)
  OBVIOUS
<1>3. Flow(a, n, "write", b, l, "read", s, m)
  BY <1>2 DEF QueueFlow
<1>4. m \in Seq(Int) /\ Len(m) <= Len(t.requests)
  BY <1>3 DEF Flow
<1>5. /\ \A r \in 1 .. Len(s.requests) : At(m, r) = At(m, r)
      /\ \A r \in Len(s.requests) + 1 .. Len(t.requests) :
           At(m, r) = t.requests[r].size
  OBVIOUS
<1>6. Flow(a, n, "write", b, l, "read", t, m)
  BY ONLY <1>1, <1>3, <1>4, <1>5, FlowOver
<1> QED BY <1>2, <1>6 DEF QueueFlow, Requested

LEMMA RequestFlow ==
  ASSUME NEW s, NEW k \in {0, 1}, NEW done, StateInv(s, k, done),
         NEW m, QueueFlow(s, m),
         NEW dir \in {"read", "write"}, NEW req \in RequestType,
         dir = IF req.what = "list" THEN "read" ELSE s.cmds[req.cmd].transfer.dir,
         NEW t, t = Request(s, dir, req)
  PROVE  /\ QueueFlow(t, m)
         /\ t.cmds = s.cmds /\ t.requests = Append(s.requests, req)
         /\ Requested(t) = Requested(s) \union
              (IF req.size = 0 THEN {} ELSE {Len(s.requests) + 1})
<1>1. /\ s \in StateType /\ s.write \in QueueType /\ s.read \in QueueType
      /\ s.requests \in Seq(RequestType) /\ Len(s.requests) \in Nat
  BY StateFields
<1>2. PICK R, h : R = Append(s.requests, req) /\ h = Len(s.requests)
  BY Zenon
<1>3. /\ R \in Seq(RequestType) /\ Len(R) = h + 1 /\ Len(R) \in Nat /\ h \in Nat
      /\ R[h + 1] = req /\ \A r \in 1 .. h : R[r] = s.requests[r]
  BY <1>1, <1>2
<1>4. PICK a : a = [s EXCEPT !.requests = R]
  BY Zenon
<1>5. /\ a \in StateType /\ a.requests = R /\ a.read = s.read
      /\ a.write = s.write /\ a.cmds = s.cmds
  BY <1>1, <1>3, <1>4 DEF StateType
<1>6. req.size \in Int /\ req.what \in {"list", "data"}
  BY DEF RequestType
<1>7. PICK w, n, b, l :
        /\ w = PiecesW(s.write) /\ n = CrossedW(s.write)
        /\ b = PiecesR(s.read) /\ l = CrossedR(s.read)
  OBVIOUS
<1>8. Flow(w, n, "write", b, l, "read", s, m)
  BY <1>7 DEF QueueFlow
<1>9. PICK W, B : W = Behind(w, 0) /\ B = Behind(b, 0)
  OBVIOUS
<1>10. Requested(s) = W \union B
  BY <1>7, <1>9 DEF Requested
<1>11. PICK p : p = FIFOEntry(h + 1, req.size)
  OBVIOUS
<1>12. p \in PieceType /\ p.last /\ p.req = h + 1 /\ p.addr = 0 /\ p.size = req.size
  BY <1>3, <1>6, <1>11 DEF PieceType, FIFOEntry
<1>13. ASSUME NEW v, v.requests = R, v.cmds = s.cmds
       PROVE  /\ Extends(s, v) /\ DirectionOf(v, p.req) = dir
              /\ Len(v.requests) = Len(s.requests) + 1
              /\ p.req = Len(s.requests) + 1 /\ v.requests[p.req] = req
  <2>1. \A r \in 1 .. Len(s.requests) :
          v.requests[r] = s.requests[r] /\ DirectionOf(v, r) = DirectionOf(s, r)
    BY <1>2, <1>3, <1>13 DEF DirectionOf
  <2>2. DirectionOf(v, p.req) = dir
    BY <1>3, <1>12, <1>13 DEF DirectionOf
  <2> QED BY <1>1, <1>2, <1>3, <1>12, <1>13, <2>1, <2>2 DEF Extends
<1>14. CASE req.size = 0
  <2>1. dmaRead(s.read, Len(R), req.size) = s.read
        /\ dmaWrite(s.write, Len(R), req.size) = s.write
    BY <1>14 DEF dmaRead, dmaWrite
  <2>2. /\ t.requests = R /\ t.read = s.read /\ t.write = s.write
        /\ t.cmds = s.cmds
    <3>1. CASE dir = "read"
      <4>1. t = [a EXCEPT !.read = dmaRead(s.read, Len(R), req.size)]
        BY <1>2, <1>4, <1>5, <3>1 DEF Request
      <4> QED BY <1>5, <2>1, <4>1 DEF StateType
    <3>2. CASE dir = "write"
      <4>1. t = [a EXCEPT !.write = dmaWrite(s.write, Len(R), req.size)]
        BY <1>2, <1>4, <1>5, <3>2 DEF Request
      <4> QED BY <1>5, <2>1, <4>1 DEF StateType
    <3> QED BY <3>1, <3>2
  <2>3. Extends(s, t)
    BY <1>13, <2>2
  <2>4. m \in Seq(Int) /\ Len(m) <= h /\ Len(m) \in Nat
    BY <1>2, <1>8 DEF Flow
  <2>5. Len(m) <= Len(t.requests)
    <3>1. Len(t.requests) = h + 1 /\ h \in Nat
      BY <1>3, <2>2
    <3> QED BY ONLY <2>4, <3>1
  <2>6. \A r \in Len(s.requests) + 1 .. Len(t.requests) :
          At(m, r) = t.requests[r].size
    <3>1. \A r \in Len(s.requests) + 1 .. Len(t.requests) :
            r = h + 1 /\ ~(r <= Len(m))
      <4>1. Len(s.requests) = h /\ Len(t.requests) = h + 1
        BY <1>2, <1>3, <2>2, Zenon
      <4> QED BY ONLY <1>3, <2>4, <4>1
    <3> QED BY <1>3, <1>14, <2>2, <3>1, Zenon DEF At
  <2>7. \A r \in 1 .. Len(s.requests) : At(m, r) = At(m, r)
    OBVIOUS
  <2>8. Flow(w, n, "write", b, l, "read", t, m)
    BY ONLY <1>8, <2>3, <2>4, <2>5, <2>6, <2>7, FlowOver
  <2> QED BY <1>2, <1>7, <1>14, <2>2, <2>8, Zenon DEF QueueFlow, Requested
<1>15. CASE req.size # 0 /\ dir = "write"
  <2>1. PICK q : q = dmaWrite(s.write, h + 1, req.size)
    OBVIOUS
  <2>2. t = [a EXCEPT !.write = q]
    BY <1>2, <1>3, <1>4, <1>5, <1>15, <2>1 DEF Request
  <2>3. t.requests = R /\ t.write = q /\ t.read = s.read /\ t.cmds = s.cmds
    BY <1>5, <2>2 DEF StateType
  <2>4. Continues(Append(w, p), n, PiecesW(q), CrossedW(q))
    <3>1. WriteInv(s.write) /\ h + 1 \in Nat /\ req.size # 0
      BY <1>3, <1>15 DEF StateInv
    <3> QED BY <1>6, <1>7, <1>11, <2>1, <3>1, DmaWriteFlow
  <2>5. /\ Flow(Append(w, p), n, "write", b, l, "read", t, m)
        /\ Behind(Append(w, p), 0) = W \union {h + 1}
    <3>1. /\ Extends(s, t) /\ DirectionOf(t, p.req) = "write"
          /\ Len(t.requests) = Len(s.requests) + 1
          /\ p.req = Len(s.requests) + 1 /\ p.size = t.requests[p.req].size
          /\ p.size # 0
      BY <1>12, <1>13, <1>15, <2>3
    <3>2. /\ Flow(Append(w, p), n, "write", b, l, "read", t, m)
          /\ Behind(Append(w, p), 0) = Behind(w, 0) \union {p.req}
      BY ONLY <1>8, <1>12, <3>1, FlowAppended
    <3> QED BY <1>9, <1>12, <3>2
  <2>6. Flow(PiecesW(q), CrossedW(q), "write", b, l, "read", t, m)
        /\ Behind(PiecesW(q), 0) = W \union {h + 1}
    BY <2>4, <2>5, FlowRefines
  <2>7. QueueFlow(t, m)
    BY <1>7, <2>3, <2>6 DEF QueueFlow
  <2>8. Requested(t) = (W \union {h + 1}) \union B
    BY <1>7, <1>9, <2>3, <2>6, Zenon DEF Requested
  <2>9. (W \union {h + 1}) \union B = (W \union B) \union {h + 1}
    OBVIOUS
  <2> QED BY <1>2, <1>10, <1>15, <2>3, <2>7, <2>8, <2>9, Zenon
<1>16. CASE req.size # 0 /\ dir = "read"
  <2>1. PICK q : q = dmaRead(s.read, h + 1, req.size)
    OBVIOUS
  <2>2. t = [a EXCEPT !.read = q]
    BY <1>2, <1>3, <1>4, <1>5, <1>16, <2>1 DEF Request
  <2>3. t.requests = R /\ t.read = q /\ t.write = s.write /\ t.cmds = s.cmds
    BY <1>5, <2>2 DEF StateType
  <2>4. Continues(Append(b, p), l, PiecesR(q), CrossedR(q))
    <3>1. ReadInv(s.read, done) /\ h + 1 \in Nat /\ req.size # 0
      BY <1>3, <1>16 DEF StateInv
    <3> QED BY <1>6, <1>7, <1>11, <2>1, <3>1, DmaReadFlow
  <2>5. /\ Flow(Append(b, p), l, "read", w, n, "write", t, m)
        /\ Behind(Append(b, p), 0) = B \union {h + 1}
    <3>1. /\ Extends(s, t) /\ DirectionOf(t, p.req) = "read"
          /\ Len(t.requests) = Len(s.requests) + 1
          /\ p.req = Len(s.requests) + 1 /\ p.size = t.requests[p.req].size
          /\ p.size # 0
      BY <1>12, <1>13, <1>16, <2>3
    <3>2. Flow(b, l, "read", w, n, "write", s, m)
      BY <1>8, FlowSwaps
    <3>3. /\ Flow(Append(b, p), l, "read", w, n, "write", t, m)
          /\ Behind(Append(b, p), 0) = Behind(b, 0) \union {p.req}
      BY ONLY <1>12, <3>1, <3>2, FlowAppended
    <3> QED BY <1>9, <1>12, <3>3
  <2>6. Flow(PiecesR(q), CrossedR(q), "read", w, n, "write", t, m)
        /\ Behind(PiecesR(q), 0) = B \union {h + 1}
    BY <2>4, <2>5, FlowRefines
  <2>7. Flow(w, n, "write", PiecesR(q), CrossedR(q), "read", t, m)
    BY <2>6, FlowSwaps
  <2>8. QueueFlow(t, m)
    BY <1>7, <2>3, <2>7 DEF QueueFlow
  <2>9. Requested(t) = W \union (B \union {h + 1})
    BY <1>7, <1>9, <2>3, <2>6, Zenon DEF Requested
  <2>10. W \union (B \union {h + 1}) = (W \union B) \union {h + 1}
    OBVIOUS
  <2> QED BY <1>2, <1>10, <1>16, <2>3, <2>8, <2>9, <2>10, Zenon
<1> QED BY <1>14, <1>15, <1>16, Zenon

(***************************************************************************)
(* What a command waits for does not change when others ask for something. *)
(***************************************************************************)
SameData(s, t, c) ==
  /\ DataOf(t, c) = DataOf(s, c)
  /\ \A r \in DataOf(s, c) : /\ t.requests[r] = s.requests[r]
                             /\ r \in Requested(t) <=> r \in Requested(s)

LEMMA SameDataOwed ==
  ASSUME NEW s, NEW t, NEW c, SameData(s, t, c)
  PROVE  /\ AskedBytes(t, c) = AskedBytes(s, c)
         /\ \A x : Owed(t, c, x) = Owed(s, c, x)
<1>1. AskedBytes(t, c) = AskedBytes(s, c)
  BY DEF SameData, AskedBytes
<1>2. ASSUME NEW x PROVE Owed(t, c, x) = Owed(s, c, x)
  BY DEF SameData, Owed
<1> QED BY <1>1, <1>2

LEMMA SameCommandFlow ==
  ASSUME NEW s, NEW t, NEW c, NEW x, CommandFlow(s, c, x), SameData(s, t, c),
         t.cmds[c] = s.cmds[c]
  PROVE  CommandFlow(t, c, x)
BY SameDataOwed DEF CommandFlow

LEMMA NothingAsked ==
  ASSUME NEW s, NEW t, t.requests = s.requests, Requested(t) = Requested(s),
         NEW c
  PROVE  SameData(s, t, c)
BY DEF SameData, DataOf

LEMMA AppendedRequest ==
  ASSUME NEW a, a \in Seq(RequestType), NEW req \in RequestType,
         NEW b, b = Append(a, req), NEW h, h = Len(a) + 1
  PROVE  /\ Len(a) \in Nat /\ Len(b) = h /\ b[h] = req /\ h \in Nat
         /\ \A r \in 1 .. Len(a) : b[r] = a[r]
         /\ \A r \in 1 .. h : r \in 1 .. Len(a) \/ r = h
         /\ \A r \in 1 .. Len(a) : r \in 1 .. h /\ r # h
         /\ h \in 1 .. h
OBVIOUS

OneMore(s, t, req, h) ==
  /\ req \in RequestType /\ s.requests \in Seq(RequestType)
  /\ t.requests = Append(s.requests, req) /\ h = Len(s.requests) + 1
  /\ Requested(t) = Requested(s) \union (IF req.size = 0 THEN {} ELSE {h})

LEMMA AskedMore ==
  ASSUME NEW s, NEW t, NEW req, NEW h, OneMore(s, t, req, h),
         NEW c, ~(req.what = "data" /\ req.cmd = c)
  PROVE  SameData(s, t, c)
<1>1. /\ Len(s.requests) \in Nat /\ Len(t.requests) = h
      /\ t.requests[h] = req /\ h \in Nat
      /\ \A r \in 1 .. Len(s.requests) : t.requests[r] = s.requests[r]
      /\ \A r \in 1 .. h : r \in 1 .. Len(s.requests) \/ r = h
      /\ \A r \in 1 .. Len(s.requests) : r \in 1 .. h /\ r # h
      /\ h \in 1 .. h
  BY AppendedRequest DEF OneMore
<1>2. DataOf(t, c) = DataOf(s, c)
  BY <1>1 DEF DataOf
<1>3. \A r \in DataOf(s, c) : r \in 1 .. Len(s.requests)
  BY DEF DataOf
<1>4. /\ \A r \in DataOf(s, c) : t.requests[r] = s.requests[r]
      /\ \A r \in DataOf(s, c) : r \in Requested(t) <=> r \in Requested(s)
  BY <1>1, <1>3 DEF OneMore
<1> QED BY <1>2, <1>4 DEF SameData

LEMMA AskedMine ==
  ASSUME NEW s, NEW t, NEW req, NEW h, OneMore(s, t, req, h),
         NEW c, req.what = "data", req.cmd = c
  PROVE  /\ DataOf(t, c) = DataOf(s, c) \union {h}
         /\ \A x : x # h => Owed(t, c, x) = Owed(s, c, x) \union {h}
<1>1. /\ Len(s.requests) \in Nat /\ Len(t.requests) = h
      /\ t.requests[h] = req /\ h \in Nat
      /\ \A r \in 1 .. Len(s.requests) : t.requests[r] = s.requests[r]
      /\ \A r \in 1 .. h : r \in 1 .. Len(s.requests) \/ r = h
      /\ \A r \in 1 .. Len(s.requests) : r \in 1 .. h /\ r # h
      /\ h \in 1 .. h
  BY AppendedRequest DEF OneMore
<1>2. DataOf(t, c) = DataOf(s, c) \union {h}
  BY <1>1 DEF DataOf, OneMore
<1>3. ASSUME NEW x, x # h
      PROVE  Owed(t, c, x) = Owed(s, c, x) \union {h}
  <2>1. \A r \in DataOf(s, c) : r \in 1 .. Len(s.requests)
    BY DEF DataOf
  <2>2. h \in Owed(t, c, x)
    BY <1>1, <1>2, <1>3 DEF Owed, OneMore
  <2>3. \A r \in DataOf(s, c) : r \in Owed(t, c, x) <=> r \in Owed(s, c, x)
    BY <1>1, <1>2, <2>1 DEF Owed, OneMore
  <2>4. Owed(t, c, x) \subseteq DataOf(t, c) /\ Owed(s, c, x) \subseteq DataOf(s, c)
    BY DEF Owed
  <2> QED BY <1>2, <2>2, <2>3, <2>4
<1> QED BY <1>2, <1>3

(***************************************************************************)
(* A command changes.                                                      *)
(***************************************************************************)
LEMMA UpdateFlow ==
  ASSUME NEW s, NEW k \in {0, 1}, NEW done, StateInv(s, k, done),
         NEW m, NEW x, FlowInv(s, m, x),
         NEW c \in 1 .. Len(s.cmds), NEW y \in CommandType,
         y.transfer = s.cmds[c].transfer,
         NEW t, t = Update(s, c, y)
  PROVE  /\ QueueFlow(t, m) /\ Requested(t) = Requested(s)
         /\ t.requests = s.requests /\ t.cmds[c] = y
         /\ Len(t.cmds) = Len(s.cmds) /\ SameData(s, t, c)
         /\ \A d \in 1 .. Len(t.cmds) : d # c => CommandFlow(t, d, x)
<1>1. /\ s \in StateType /\ s.cmds \in Seq(CommandType)
      /\ Len(s.cmds) \in Nat /\ Len(s.requests) \in Nat
  BY StateFields
<1>2. PICK v : v = [s.cmds EXCEPT ![c] = y]
  BY Zenon
<1>3. /\ Len(v) = Len(s.cmds) /\ v[c] = y
      /\ \A d \in 1 .. Len(s.cmds) : d # c => v[d] = s.cmds[d]
  BY <1>1, <1>2
<1>4. t = [s EXCEPT !.cmds = v]
  BY <1>2 DEF Update
<1>5. /\ t.read = s.read /\ t.write = s.write
      /\ t.requests = s.requests /\ t.cmds = v
  BY <1>1, <1>4 DEF StateType
<1>6. \A r \in 1 .. Len(s.requests) : DirectionOf(t, r) = DirectionOf(s, r)
  <2>1. \A r \in 1 .. Len(s.requests) : s.requests[r].cmd \in 1 .. Len(s.cmds)
    BY DEF StateInv, RequestsOK
  <2> QED BY <1>3, <1>5, <2>1, Zenon DEF DirectionOf
<1>7. QueueFlow(t, m) /\ Requested(t) = Requested(s)
  BY <1>1, <1>5, <1>6, SameQueues DEF FlowInv
<1>8. \A d : SameData(s, t, d)
  BY <1>5, <1>7, NothingAsked
<1>9. ASSUME NEW d \in 1 .. Len(t.cmds), d # c
      PROVE  CommandFlow(t, d, x)
  <2>1. d \in 1 .. Len(s.cmds) /\ t.cmds[d] = s.cmds[d]
    BY <1>3, <1>5, <1>9
  <2>2. CommandFlow(s, d, x)
    BY <2>1 DEF FlowInv
  <2> QED BY <1>8, <2>1, <2>2, SameCommandFlow
<1> QED BY <1>3, <1>5, <1>7, <1>8, <1>9

(***************************************************************************)
(* A command goes on before its data is asked for.                         *)
(***************************************************************************)
LEMMA WaitingCommandFlow ==
  ASSUME NEW s, NEW c, NEW x, s.cmds[c].at \notin {"moving", "done"},
         ~Chained(s.cmds[c].transfer) => ListKnown(s.cmds[c])
  PROVE  CommandFlow(s, c, x)
BY DEF CommandFlow

LEMMA SameListKnown ==
  ASSUME NEW x, NEW y, y.chunks = x.chunks, y.lists = x.lists,
         y.todo = x.todo, y.transfer = x.transfer, ListKnown(x)
  PROVE  ListKnown(y)
BY DEF ListKnown

LEMMA WithAtFields ==
  ASSUME NEW x \in CommandType, NEW at, NEW y, y = [x EXCEPT !.at = at]
  PROVE  /\ y.chunks = x.chunks /\ y.lists = x.lists /\ y.todo = x.todo
         /\ y.transfer = x.transfer /\ y.counter = x.counter /\ y.at = at
BY DEF CommandType

LEMMA FetchListFlow ==
  ASSUME NEW s, NEW k \in {0, 1}, NEW done, StateInv(s, k, done),
         NEW m, NEW x, FlowInv(s, m, x), NEW c \in 1 .. Len(s.cmds),
         s.cmds[c].lists # <<>>,
         s.cmds[c].at \notin {"moving", "done"}, NoneAsked(s, k, c),
         NEW t, t = FetchList(s, c)
  PROVE  FlowInv(t, m, x) /\ t.cmds[c].at = "fetching"
         /\ \A d \in 1 .. Len(s.cmds) : d # c => t.cmds[d] = s.cmds[d]
<1>1. s.cmds \in Seq(CommandType) /\ Len(s.cmds) \in Nat
  BY StateFields
<1>2. PICK o, y : o = s.cmds[c] /\ y = [o EXCEPT !.at = "fetching"]
  BY Zenon
<1>3. o \in CommandType /\ c \in Nat
  BY <1>1, <1>2
<1>4. /\ y.chunks = o.chunks /\ y.lists = o.lists /\ y.todo = o.todo
      /\ y.transfer = o.transfer /\ y.at = "fetching"
  BY <1>2, <1>3, WithAtFields
<1>5. y \in CommandType
  <2>1. PICK at : at = "fetching"
    OBVIOUS
  <2>2. at \in {"parsed", "fetching", "fetched", "moving", "done"}
        /\ y = [o EXCEPT !.at = at]
    BY <1>2, <2>1
  <2> QED BY ONLY <1>3, <2>2, WithAt
<1>6. PICK u : u = Update(s, c, y)
  OBVIOUS
<1>7. FlowInv(s, m, x)
  OBVIOUS
<1>8. /\ QueueFlow(u, m) /\ u.requests = s.requests /\ u.cmds[c] = y
      /\ Len(u.cmds) = Len(s.cmds)
      /\ \A d \in 1 .. Len(u.cmds) : d # c => CommandFlow(u, d, x)
  <2>1. y.transfer = s.cmds[c].transfer
    BY <1>2, <1>4
  <2> QED BY ONLY <1>5, <1>6, <1>7, <2>1, StateInv(s, k, done), k \in {0, 1},
                  c \in 1 .. Len(s.cmds), UpdateFlow
<1>9. /\ StateInv(u, k, done)
      /\ \A d \in 1 .. Len(s.cmds) : d # c => u.cmds[d] = s.cmds[d]
  <2>1. /\ y.at \in {"fetching", "fetched"} => y.lists # <<>>
        /\ s.cmds[c].at \in {"moving", "done"} => y.at \in {"moving", "done"}
        /\ NoneAsked(s, k, c) \/ y.at = "fetching"
    BY <1>2, <1>4
  <2> QED BY ONLY <1>5, <1>6, <2>1, StateInv(s, k, done), k \in {0, 1},
                  c \in 1 .. Len(s.cmds), UpdateKeeps
<1>10. CommandFlow(u, c, x)
  <2>1. ~Chained(o.transfer) => ListKnown(o)
    BY <1>2, <1>7 DEF FlowInv, CommandFlow
  <2>2. ~Chained(y.transfer) => ListKnown(y)
    BY <1>4, <2>1, SameListKnown
  <2> QED BY <1>4, <1>8, <2>2, WaitingCommandFlow
<1>11. PICK req : req = [cmd |-> c, what |-> "list", pos |-> 0,
                         size |-> ListSize(s.cmds[c])]
  BY Zenon
<1>12. req \in RequestType /\ req.what = "list"
  <2>1. Head(o.lists) \in Seq(ChunkType)
    BY <1>2, <1>3, HeadList
  <2>2. Len(Head(o.lists)) \in Int
    BY <2>1
  <2>3. ListSize(o) \in Int
    BY <2>2, DMAListsAssumption DEF ListSize
  <2> QED BY <1>2, <1>3, <1>11, <2>3 DEF RequestType
<1>13. t = Request(u, "read", req)
  BY <1>2, <1>6, <1>11 DEF FetchList
<1>14. /\ QueueFlow(t, m)
       /\ t.cmds = u.cmds /\ t.requests = Append(u.requests, req)
       /\ Requested(t) = Requested(u) \union
            (IF req.size = 0 THEN {} ELSE {Len(u.requests) + 1})
  <2>1. PICK dir : dir = "read"
    OBVIOUS
  <2>2. /\ dir \in {"read", "write"} /\ t = Request(u, dir, req)
        /\ dir = IF req.what = "list" THEN "read"
                 ELSE u.cmds[req.cmd].transfer.dir
    BY <1>12, <1>13, <2>1
  <2> QED BY ONLY <1>8, <1>9, <1>12, <2>2, k \in {0, 1}, RequestFlow
<1>15. \A d : SameData(u, t, d)
  <2>1. u.requests \in Seq(RequestType)
    BY <1>9, StateFields
  <2>2. PICK h : h = Len(u.requests) + 1
    OBVIOUS
  <2>3. Requested(t) = Requested(u) \union (IF req.size = 0 THEN {} ELSE {h})
    BY <1>14, <2>2
  <2>4. OneMore(u, t, req, h)
    BY <1>12, <1>14, <2>1, <2>2, <2>3 DEF OneMore
  <2>5. ASSUME NEW d
        PROVE  SameData(u, t, d)
    BY <1>12, <2>4, AskedMore
  <2> QED BY <2>5
<1>16. \A d \in 1 .. Len(t.cmds) : CommandFlow(t, d, x)
  <2>1. ASSUME NEW d \in 1 .. Len(t.cmds) PROVE CommandFlow(t, d, x)
    <3>1. CommandFlow(u, d, x) /\ t.cmds[d] = u.cmds[d] /\ SameData(u, t, d)
      BY <1>8, <1>10, <1>14, <1>15
    <3> QED BY <3>1, SameCommandFlow
  <2> QED BY <2>1
<1> QED BY <1>4, <1>8, <1>9, <1>14, <1>16 DEF FlowInv

(***************************************************************************)
(* A command asks for the segments of its data.                            *)
(***************************************************************************)
LEMMA SameDataTrans ==
  ASSUME NEW s, NEW t, NEW u, NEW d, SameData(s, t, d), SameData(t, u, d)
  PROVE  SameData(s, u, d)
BY DEF SameData

LEMMA AskForFlow ==
  ASSUME NEW s, NEW k \in {0, 1}, NEW done, StateInv(s, k, done),
         NEW m, QueueFlow(s, m),
         NEW c \in 1 .. Len(s.cmds), NEW g \in SegmentType,
         NEW t, t = AskFor(s, c, g),
         NEW h, h = Len(s.requests) + 1
  PROVE  /\ QueueFlow(t, m) /\ Len(t.requests) = h
         /\ \A r \in 1 .. Len(s.requests) : t.requests[r] = s.requests[r]
         /\ t.requests[h].pos = g.pos /\ t.requests[h].size = g.size
         /\ \A d : d # c => SameData(s, t, d)
         /\ DataOf(t, c) = DataOf(s, c) \union {h}
         /\ \A x : x # h => Owed(t, c, x) = Owed(s, c, x) \union {h}
<1>1. /\ s.cmds \in Seq(CommandType) /\ Len(s.cmds) \in Nat
      /\ s.requests \in Seq(RequestType)
  BY StateFields
<1>2. s.cmds[c] \in CommandType /\ c \in Nat
  BY <1>1
<1>3. PICK dir : dir = s.cmds[c].transfer.dir
  OBVIOUS
<1>4. dir \in {"read", "write"}
  BY <1>2, <1>3, CommandFields, TransferFields
<1>5. PICK req : req = [cmd |-> c, what |-> "data", pos |-> g.pos, size |-> g.size]
  BY Zenon
<1>6. /\ req \in RequestType /\ req.cmd = c /\ req.what = "data"
      /\ req.pos = g.pos /\ req.size = g.size
  BY <1>2, <1>5 DEF RequestType, SegmentType
<1>7. t = Request(s, dir, req)
  BY <1>3, <1>5 DEF AskFor
<1>8. dir = IF req.what = "list" THEN "read" ELSE s.cmds[req.cmd].transfer.dir
  BY <1>3, <1>6
<1>9. /\ QueueFlow(t, m)
      /\ t.requests = Append(s.requests, req)
      /\ Requested(t) = Requested(s) \union
           (IF req.size = 0 THEN {} ELSE {Len(s.requests) + 1})
  <2>1. /\ QueueFlow(t, m)
        /\ t.cmds = s.cmds /\ t.requests = Append(s.requests, req)
        /\ Requested(t) = Requested(s) \union
             (IF req.size = 0 THEN {} ELSE {Len(s.requests) + 1})
    <3>1. dir \in {"read", "write"} /\ req \in RequestType
      BY <1>4, <1>6
    <3> QED BY ONLY k \in {0, 1}, StateInv(s, k, done), QueueFlow(s, m), <3>1,
                    <1>7, <1>8, RequestFlow, SMTT(30)
  <2> QED BY ONLY <2>1
<1>10. /\ Len(t.requests) = h /\ t.requests[h] = req
       /\ \A r \in 1 .. Len(s.requests) : t.requests[r] = s.requests[r]
  BY ONLY <1>1, <1>6, <1>9, h = Len(s.requests) + 1
<1>11. Requested(t) = Requested(s) \union (IF req.size = 0 THEN {} ELSE {h})
  BY <1>9
<1>12. OneMore(s, t, req, h) /\ req.what = "data" /\ req.cmd = c
  BY <1>1, <1>6, <1>9, <1>11 DEF OneMore
<1>13. ASSUME NEW d, d # c PROVE SameData(s, t, d)
  <2>1. ~(req.what = "data" /\ req.cmd = d)
    BY <1>12, <1>13
  <2> QED BY ONLY <1>12, <2>1, AskedMore
<1>14. DataOf(t, c) = DataOf(s, c) \union {h}
  BY ONLY <1>12, AskedMine
<1>15. \A x : x # h => Owed(t, c, x) = Owed(s, c, x) \union {h}
  BY ONLY <1>12, AskedMine
<1> QED BY ONLY <1>6, <1>9, <1>10, <1>13, <1>14, <1>15

AskedSo(u, t, m, c, i, segs) ==
  /\ QueueFlow(t, m) /\ Len(t.requests) = Len(u.requests) + i
  /\ \A j \in 1 .. i : /\ t.requests[Len(u.requests) + j].pos = segs[j].pos
                       /\ t.requests[Len(u.requests) + j].size = segs[j].size
  /\ \A d : d # c => SameData(u, t, d)
  /\ DataOf(t, c) = DataOf(u, c) \union (Len(u.requests) + 1 .. Len(u.requests) + i)
  /\ \A x \in 0 .. Len(u.requests) :
       Owed(t, c, x) = Owed(u, c, x)
                         \union (Len(u.requests) + 1 .. Len(u.requests) + i)

LEMMA AskedStep ==
  ASSUME NEW u, Len(u.requests) \in Nat, NEW m, NEW c, NEW segs, NEW i \in Nat,
         NEW v, AskedSo(u, v, m, c, i, segs),
         NEW k \in {0, 1}, NEW done, StateInv(v, k, done),
         c \in 1 .. Len(v.cmds),
         NEW n, n = i + 1, segs[n] \in SegmentType,
         NEW w, w = AskFor(v, c, segs[n])
  PROVE  AskedSo(u, w, m, c, n, segs)
<1>1. PICK L, h, g : L = Len(u.requests) /\ h = Len(v.requests) + 1 /\ g = segs[n]
  OBVIOUS
<1>2. /\ QueueFlow(v, m) /\ Len(v.requests) = L + i /\ h = L + n
      /\ L \in Nat /\ n \in Nat
      /\ \A j \in 1 .. i : /\ v.requests[L + j].pos = segs[j].pos
                           /\ v.requests[L + j].size = segs[j].size
  <2>1. /\ QueueFlow(v, m) /\ Len(v.requests) = L + i
        /\ \A j \in 1 .. i : /\ v.requests[L + j].pos = segs[j].pos
                             /\ v.requests[L + j].size = segs[j].size
    BY <1>1, Zenon DEF AskedSo
  <2>2. L \in Nat /\ n \in Nat /\ h = L + n
    <3>1. PICK y : y = Len(v.requests)
      BY Zenon
    <3>2. y = L + i /\ h = y + 1 /\ L \in Nat
      BY <1>1, <2>1, <3>1
    <3> QED BY ONLY <3>2, i \in Nat, n = i + 1
  <2> QED BY <2>1, <2>2, Zenon
<1>3. /\ \A d : d # c => SameData(u, v, d)
      /\ DataOf(v, c) = DataOf(u, c) \union (L + 1 .. L + i)
      /\ \A x \in 0 .. L : Owed(v, c, x) = Owed(u, c, x) \union (L + 1 .. L + i)
  BY <1>1, Zenon DEF AskedSo
<1>4. g \in SegmentType /\ w = AskFor(v, c, g)
  BY <1>1
<1>5. /\ QueueFlow(w, m) /\ Len(w.requests) = h
      /\ \A r \in 1 .. Len(v.requests) : w.requests[r] = v.requests[r]
      /\ w.requests[h].pos = g.pos /\ w.requests[h].size = g.size
      /\ \A d : d # c => SameData(v, w, d)
      /\ DataOf(w, c) = DataOf(v, c) \union {h}
      /\ \A x : x # h => Owed(w, c, x) = Owed(v, c, x) \union {h}
  <2>1. k \in {0, 1} /\ StateInv(v, k, done) /\ c \in 1 .. Len(v.cmds)
        /\ QueueFlow(v, m) /\ h = Len(v.requests) + 1
    BY <1>1, <1>2
  <2>2. /\ QueueFlow(w, m) /\ Len(w.requests) = h
        /\ \A r \in 1 .. Len(v.requests) : w.requests[r] = v.requests[r]
        /\ w.requests[h].pos = g.pos /\ w.requests[h].size = g.size
    BY ONLY <1>4, <2>1, AskForFlow
  <2>3. \A d : d # c => SameData(v, w, d)
    BY ONLY <1>4, <2>1, AskForFlow
  <2>4. DataOf(w, c) = DataOf(v, c) \union {h}
    BY ONLY <1>4, <2>1, AskForFlow
  <2>5. \A x : x # h => Owed(w, c, x) = Owed(v, c, x) \union {h}
    BY ONLY <1>4, <2>1, AskForFlow
  <2> QED BY <2>2, <2>3, <2>4, <2>5
<1>6. /\ (L + 1 .. L + i) \union {h} = L + 1 .. L + n
      /\ \A j \in 1 .. n : j \in 1 .. i \/ j = n
      /\ \A j \in 1 .. i : L + j \in 1 .. Len(v.requests)
      /\ \A x \in 0 .. L : x # h
  BY ONLY <1>2, i \in Nat, n = i + 1
<1>7. \A j \in 1 .. n : /\ w.requests[L + j].pos = segs[j].pos
                        /\ w.requests[L + j].size = segs[j].size
  <2>1. ASSUME NEW j \in 1 .. i
        PROVE  /\ w.requests[L + j].pos = segs[j].pos
               /\ w.requests[L + j].size = segs[j].size
    <3>1. w.requests[L + j] = v.requests[L + j]
      BY ONLY <1>5, <1>6, j \in 1 .. i, Zenon
    <3> QED BY <1>2, <3>1, Zenon
  <2>2. /\ w.requests[L + n].pos = segs[n].pos
        /\ w.requests[L + n].size = segs[n].size
    BY <1>1, <1>2, <1>5
  <2> QED BY ONLY <1>6, <2>1, <2>2, Zenon
<1>8. \A d : d # c => SameData(u, w, d)
  BY <1>3, <1>5, SameDataTrans, Zenon
<1>9. DataOf(w, c) = DataOf(u, c) \union (L + 1 .. L + n)
  BY <1>3, <1>5, <1>6
<1>10. \A x \in 0 .. L : Owed(w, c, x) = Owed(u, c, x) \union (L + 1 .. L + n)
  BY <1>3, <1>5, <1>6
<1>11. Len(w.requests) = L + n
  BY <1>2, <1>5
<1> QED BY <1>1, <1>5, <1>7, <1>8, <1>9, <1>10, <1>11, Zenon DEF AskedSo

-----------------------------------------------------------------------------
(***************************************************************************)
(* The segments a list is cut into cover what is wanted of it.             *)
(***************************************************************************)
LEMMA SumsAgree ==
  ASSUME NEW chunks \in Seq(ChunkType), NEW g, SumsOf(g, chunks)
  PROVE  SumSizes(chunks) = g[Len(chunks)]
<1> DEFINE n == Len(chunks)
<1>1. PICK f : SumsOf(f, chunks) /\ SumSizes(chunks) = f[n]
  BY SumSizesTrace
<1>2. n \in Nat
  OBVIOUS
<1>3. /\ f[0] = g[0]
      /\ \A i \in 1 .. n : /\ f[i] = f[i - 1] + chunks[i].length
                           /\ g[i] = g[i - 1] + chunks[i].length
  BY <1>1 DEF SumsOf
<1> HIDE DEF n
<1> DEFINE T == {i \in 0 .. n : f[i] = g[i]}
<1>4. 0 \in T
  BY <1>2, <1>3
<1>5. ASSUME NEW i \in 1 .. n, i - 1 \in T
      PROVE  i \in T
  BY <1>2, <1>3, <1>5
<1> HIDE DEF T
<1>6. \A i \in 0 .. n : i \in T
  BY <1>2, <1>4, <1>5, UpTo, Zenon
<1>7. n \in 0 .. n
  BY <1>2
<1> QED BY <1>1, <1>6, <1>7 DEF T, n

LEMMA PrefixSums ==
  ASSUME NEW chunks \in Seq(ChunkType), NEW g, SumsOf(g, chunks),
         NEW k \in 0 .. Len(chunks)
  PROVE  SumSizes(SubSeq(chunks, 1, k)) = g[k]
<1>1. PICK a : a = SubSeq(chunks, 1, k)
  BY Zenon
<1>2. /\ a \in Seq(ChunkType) /\ Len(a) = k /\ k \in Nat
      /\ \A i \in 1 .. k : a[i] = chunks[i] /\ i \in 1 .. Len(chunks)
                           /\ i - 1 \in 0 .. k /\ i \in 0 .. k
      /\ \A i \in 0 .. k : i \in 0 .. Len(chunks)
      /\ 0 \in 0 .. k
  BY <1>1
<1>3. PICK h : h = [i \in 0 .. k |-> g[i]]
  BY Zenon
<1>4. SumsOf(h, a)
  <2>1. h \in [0 .. k -> Int]
    BY <1>2, <1>3, Zenon DEF SumsOf
  <2>2. h[0] = 0
    BY <1>2, <1>3 DEF SumsOf
  <2>3. \A i \in 1 .. k : h[i] = h[i - 1] + a[i].length
    BY <1>2, <1>3, Zenon DEF SumsOf
  <2> QED BY <1>2, <2>1, <2>2, <2>3 DEF SumsOf
<1>5. SumSizes(a) = h[k]
  BY <1>2, <1>4, SumsAgree
<1>6. k \in 0 .. k
  BY <1>2
<1> QED BY <1>1, <1>3, <1>5, <1>6

BytesOf(g) == g.pos .. g.pos + g.size - 1
Covered(segs) == UNION {BytesOf(segs[i]) : i \in 1 .. Len(segs)}

LEMMA CoveredAppend ==
  ASSUME NEW segs \in Seq(SegmentType), NEW g \in SegmentType,
         NEW a, a = Append(segs, g)
  PROVE  Covered(a) = Covered(segs) \union BytesOf(g)
<1>1. /\ Len(segs) \in Nat /\ Len(a) = Len(segs) + 1 /\ a[Len(segs) + 1] = g
      /\ \A i \in 1 .. Len(segs) : a[i] = segs[i]
  OBVIOUS
<1>2. PICK n, m : n = Len(segs) /\ m = Len(segs) + 1
  OBVIOUS
<1>3. /\ \A i \in 1 .. m : i \in 1 .. n \/ i = m
      /\ \A i \in 1 .. n : i \in 1 .. m
      /\ m \in 1 .. m
  BY <1>1, <1>2
<1>4. Len(a) = m /\ a[m] = g /\ \A i \in 1 .. n : a[i] = segs[i]
  BY <1>1, <1>2
<1>5. /\ \A x : x \in Covered(a) <=> \E i \in 1 .. m : x \in BytesOf(a[i])
      /\ \A x : x \in Covered(segs) <=> \E i \in 1 .. n : x \in BytesOf(segs[i])
  BY <1>2, <1>4, Zenon DEF Covered
<1>6. ASSUME NEW x
      PROVE  x \in Covered(a) <=> x \in Covered(segs) \/ x \in BytesOf(g)
  BY <1>3, <1>4, <1>5, Zenon
<1> QED BY <1>6

LEMMA MinOf ==
  ASSUME NEW a \in Int, NEW b \in Int
  PROVE  Min({a, b}) = IF a <= b THEN a ELSE b
<1>1. \E x \in {a, b} : \A y \in {a, b} : x <= y
  <2>1. CASE a <= b
    BY <2>1
  <2>2. CASE b <= a
    BY <2>2
  <2> QED BY <2>1, <2>2
<1>2. Min({a, b}) \in {a, b} /\ \A y \in {a, b} : Min({a, b}) <= y
  BY <1>1 DEF Min
<1> QED BY <1>2

(***************************************************************************)
(* The loop behind chunks of p bytes in all.                               *)
(***************************************************************************)
LoopAt(s, p, offset, length) ==
  /\ s \in LoopType
  /\ ~s.begin => /\ p <= offset /\ s.current = p /\ s.total = 0
                 /\ ~s.stop /\ s.segments = <<>>
  /\ s.begin => /\ offset < p
                /\ s.total = IF p - offset <= length THEN p - offset ELSE length
  /\ s.stop => s.begin /\ s.total = length

Taken(c, p, q, offset, length) ==
  IF c.ignore THEN {} ELSE {b \in 0 .. length - 1 : b + offset \in p .. q - 1}

LEMMA NextChunkCovers ==
  ASSUME NEW s, NEW p \in Nat, NEW offset \in Nat, NEW length \in Nat,
         LoopAt(s, p, offset, length),
         NEW c \in ChunkType, NEW q, q = p + c.length,
         NEW t, t = NextChunk(s, c, offset, length)
  PROVE  /\ LoopAt(t, q, offset, length)
         /\ Covered(t.segments)
              = Covered(s.segments) \union Taken(c, p, q, offset, length)
<1>1. /\ s.segments \in Seq(SegmentType) /\ s.total \in Int /\ s.current \in Int
      /\ s.begin \in BOOLEAN /\ s.stop \in BOOLEAN /\ s \in LoopType
      /\ c.length \in Nat /\ c.ignore \in BOOLEAN /\ q \in Nat
  BY DEF LoopType, ChunkType, LoopAt
<1>2. /\ ~s.begin => /\ p <= offset /\ s.current = p /\ s.total = 0
                     /\ ~s.stop /\ s.segments = <<>>
      /\ s.begin => /\ offset < p
                    /\ s.total = IF p - offset <= length THEN p - offset ELSE length
      /\ s.stop => s.begin /\ s.total = length
  BY DEF LoopAt
<1>3. PICK from, len : /\ from = (IF s.begin THEN 0 ELSE offset - s.current)
                       /\ len = c.length
  OBVIOUS
<1>4. len - from \in Int /\ length - s.total \in Int /\ from \in Int /\ len \in Nat
  BY <1>1, <1>3
<1>5. PICK size : size = IF len - from <= length - s.total THEN len - from
                         ELSE length - s.total
  OBVIOUS
<1>6. size \in Int /\ size = Min({c.length - from, length - s.total})
  BY <1>3, <1>4, <1>5, MinOf
<1>7. PICK g : g = [pos |-> s.total, size |-> size]
  BY Zenon
<1>8. g \in SegmentType /\ g.pos = s.total /\ g.size = size
  BY <1>1, <1>6, <1>7 DEF SegmentType
<1>9. PICK u : u = IF c.ignore THEN s.segments ELSE Append(s.segments, g)
  BY Zenon
<1>10. PICK m, k, b : m = s.total + size /\ k = s.current + c.length
                      /\ b = (s.begin /\ s.total + size = length)
  OBVIOUS
<1>11. t = IF s.stop THEN s
           ELSE IF ~s.begin /\ k <= offset THEN [s EXCEPT !.current = k]
           ELSE [s EXCEPT !.segments = u, !.total = m, !.begin = TRUE, !.stop = b]
  BY <1>3, <1>6, <1>7, <1>9, <1>10 DEF NextChunk
<1>12. t \in LoopType
  BY <1>1, NextChunkType
<1> DEFINE B == {x \in 0 .. length - 1 : x + offset \in p .. q - 1}
<1>13. q = p + len /\ k = s.current + len
  BY <1>3, <1>10
<1>14. CASE s.stop
  <2>1. t = s
    BY <1>11, <1>14
  <2>2. B = {}
    BY <1>1, <1>2, <1>4, <1>13, <1>14
  <2>3. LoopAt(t, q, offset, length)
    <3>1. PICK tot : tot = s.total
      OBVIOUS
    <3>2. /\ offset < p /\ tot = length
          /\ tot = IF p - offset <= length THEN p - offset ELSE length
      BY <1>2, <1>14, <3>1
    <3>3. /\ offset < q
          /\ tot = IF q - offset <= length THEN q - offset ELSE length
      BY ONLY <1>4, <1>13, <3>2, p \in Nat, offset \in Nat, length \in Nat
    <3> QED BY <1>1, <1>2, <1>14, <2>1, <3>1, <3>3 DEF LoopAt
  <2> HIDE DEF B
  <2>4. Covered(t.segments) = Covered(s.segments) \union
          (IF c.ignore THEN {} ELSE B)
    BY <2>1, <2>2
  <2> QED BY <2>3, <2>4 DEF B, Taken
<1>15. CASE ~s.stop /\ ~s.begin /\ k <= offset
  <2>1. /\ t.segments = s.segments /\ t.current = k /\ t.total = s.total
        /\ t.begin = s.begin /\ t.stop = s.stop
    BY <1>1, <1>11, <1>15 DEF LoopType
  <2>2. B = {}
    <3>1. s.current = p
      BY <1>2, <1>15
    <3>2. q <= offset /\ q \in Nat
      BY <1>4, <1>13, <1>15, <3>1
    <3> QED BY ONLY <3>2, p \in Nat, offset \in Nat, length \in Nat
  <2>3. LoopAt(t, q, offset, length)
    BY <1>1, <1>2, <1>4, <1>12, <1>13, <1>15, <2>1 DEF LoopAt
  <2> HIDE DEF B
  <2>4. Covered(t.segments) = Covered(s.segments) \union
          (IF c.ignore THEN {} ELSE B)
    BY <2>1, <2>2
  <2> QED BY <2>3, <2>4 DEF B, Taken
<1>16. CASE ~s.stop /\ ~(~s.begin /\ k <= offset)
  <2>1. t = [s EXCEPT !.segments = u, !.total = m, !.begin = TRUE, !.stop = b]
    BY <1>11, <1>16
  <2>2. /\ t.segments = u /\ t.total = m /\ t.begin = TRUE /\ t.stop = b
    BY ONLY <1>1, <2>1 DEF LoopType
  <2>3. PICK tot : tot = s.total
    OBVIOUS
  <2>8. /\ offset < q /\ m = tot + size
        /\ m = IF q - offset <= length THEN q - offset ELSE length
        /\ tot .. tot + size - 1 = B
    <3>1. CASE s.begin
      <4>1. /\ offset < p /\ from = 0 /\ m = tot + size /\ q = p + len
            /\ tot = IF p - offset <= length THEN p - offset ELSE length
            /\ size = IF len - from <= length - tot THEN len - from
                      ELSE length - tot
        BY <1>2, <1>3, <1>5, <1>10, <1>13, <2>3, <3>1
      <4> QED BY ONLY <1>4, <4>1, p \in Nat, offset \in Nat, length \in Nat
    <3>2. CASE ~s.begin
      <4>1. /\ p <= offset /\ from = offset - p /\ m = tot + size /\ q = p + len
            /\ tot = 0 /\ q > offset
            /\ size = IF len - from <= length - tot THEN len - from
                      ELSE length - tot
        BY <1>1, <1>2, <1>3, <1>4, <1>5, <1>10, <1>13, <1>16, <2>3, <3>2
      <4> QED BY ONLY <1>4, <4>1, p \in Nat, offset \in Nat, length \in Nat
    <3> QED BY <1>1, <3>1, <3>2, Zenon
  <2>4. LoopAt(t, q, offset, length)
    <3>1. b => m = length
      BY <1>10, Zenon
    <3> QED BY <1>12, <2>2, <2>8, <3>1 DEF LoopAt
  <2>5. BytesOf(g) = B
    BY <1>8, <2>3, <2>8 DEF BytesOf
  <2> HIDE DEF B
  <2>6. Covered(u) = Covered(s.segments) \union (IF c.ignore THEN {} ELSE B)
    <3>1. CASE c.ignore
      BY <1>9, <3>1
    <3>2. CASE ~c.ignore
      BY <1>1, <1>8, <1>9, <2>5, <3>2, CoveredAppend, Zenon
    <3> QED BY <3>1, <3>2
  <2>7. Covered(t.segments) = Covered(s.segments) \union
          (IF c.ignore THEN {} ELSE B)
    BY <2>2, <2>6
  <2> QED BY <2>4, <2>7 DEF B, Taken
<1> QED BY <1>14, <1>15, <1>16

LEMMA SegmentsCover ==
  ASSUME NEW x \in TransferType, NEW chunks \in Seq(ChunkType), chunks = Data(x)
  PROVE  Covered(Segments(chunks, x.offset, x.length)) = Wanted(x)
<1>1. PICK n, offset, length :
        n = Len(chunks) /\ offset = x.offset /\ length = x.length
  OBVIOUS
<1>2. offset \in Nat /\ length \in Nat /\ n \in Nat
  BY <1>1, TransferFields
<1>3. \A i \in 1 .. n : /\ chunks[i] \in ChunkType /\ chunks[i].length \in Nat
                        /\ i - 1 \in 0 .. n /\ i \in 0 .. n
  <2>1. \A i \in 1 .. n : chunks[i] \in ChunkType
    BY <1>1
  <2> QED BY <1>2, <2>1 DEF ChunkType
<1>4. PICK g : /\ LoopOver(g, chunks, offset, length)
               /\ Segments(chunks, offset, length) = g[n].segments
  <2>1. PICK g : /\ LoopOver(g, chunks, offset, length)
                 /\ Segments(chunks, offset, length) = g[Len(chunks)].segments
    BY <1>2, SegmentsTrace
  <2> QED BY <1>1, <2>1
<1>5. /\ g[0] = LoopStart /\ g \in [0 .. n -> LoopType]
      /\ \A i \in 1 .. n : g[i] = NextChunk(g[i - 1], chunks[i], offset, length)
  BY <1>1, <1>4 DEF LoopOver
<1>6. PICK p : SumsOf(p, chunks)
  BY SumSizesTrace
<1>7. p[0] = 0 /\ \A i \in 1 .. n : p[i] = p[i - 1] + chunks[i].length
  BY <1>1, <1>6 DEF SumsOf
<1> DEFINE Part(i) == {b \in 0 .. length - 1 : b + offset \in p[i - 1] .. p[i] - 1}
           Of(i) == {b \in 0 .. length - 1 :
                       \E j \in 1 .. i : ~chunks[j].ignore /\ b \in Part(j)}
           T == {i \in 0 .. n : /\ LoopAt(g[i], p[i], offset, length)
                                /\ p[i] \in Nat
                                /\ Covered(g[i].segments) = Of(i)}
<1>8. 0 \in T
  <2>1. LoopAt(LoopStart, 0, offset, length)
    <3>1. LoopStart \in LoopType
      BY <1>2, <1>5
    <3>2. /\ LoopStart.begin = FALSE /\ LoopStart.stop = FALSE
          /\ LoopStart.current = 0 /\ LoopStart.total = 0
          /\ LoopStart.segments = <<>>
      BY DEF LoopStart
    <3> QED BY <1>2, <3>1, <3>2 DEF LoopAt
  <2>2. Covered(LoopStart.segments) = {}
    <3>1. 1 .. Len(LoopStart.segments) = {}
      BY DEF LoopStart
    <3> QED BY <3>1 DEF Covered
  <2>3. Of(0) = {}
    OBVIOUS
  <2> QED BY <1>2, <1>5, <1>7, <2>1, <2>2, <2>3
<1>9. ASSUME NEW i \in 1 .. n, i - 1 \in T
      PROVE  i \in T
  <2>1. PICK s, q, c, t, r : /\ s = g[i - 1] /\ q = p[i - 1] /\ c = chunks[i]
                             /\ t = g[i] /\ r = p[i]
    OBVIOUS
  <2>2. /\ LoopAt(s, q, offset, length) /\ q \in Nat
        /\ Covered(s.segments) = Of(i - 1)
    BY <1>9, <2>1
  <2>3. /\ c \in ChunkType /\ r = q + c.length
        /\ t = NextChunk(s, c, offset, length)
    BY <1>3, <1>5, <1>7, <2>1
  <2>4. LoopAt(t, r, offset, length)
    BY ONLY <1>2, <2>2, <2>3, NextChunkCovers, Zenon
  <2>5. Covered(t.segments)
          = Covered(s.segments) \union Taken(c, q, r, offset, length)
    <3>1. LoopAt(s, q, offset, length) /\ q \in Nat
      BY <2>2
    <3> QED BY ONLY <1>2, <2>3, <3>1, NextChunkCovers
  <2>6. r \in Nat
    BY <1>3, <2>1, <2>2, <2>3
  <2>7. Covered(t.segments) = Of(i - 1) \union (IF c.ignore THEN {} ELSE Part(i))
    BY <2>1, <2>2, <2>5 DEF Taken
  <2>8. /\ \A j \in 1 .. i : j \in 1 .. i - 1 \/ j = i
        /\ \A j \in 1 .. i - 1 : j \in 1 .. i
        /\ i \in 1 .. i
    BY <1>2
  <2>9. Part(i) \subseteq 0 .. length - 1
    OBVIOUS
  <2> HIDE DEF Part
  <2>10. Of(i) = Of(i - 1) \union (IF c.ignore THEN {} ELSE Part(i))
    BY <2>1, <2>8, <2>9
  <2> HIDE DEF Of
  <2> QED BY <1>3, <2>1, <2>4, <2>6, <2>7, <2>10, Zenon
<1> HIDE DEF T
<1>10. \A i \in 0 .. n : i \in T
  BY <1>2, <1>8, <1>9, UpTo, Zenon
<1>11. n \in 0 .. n
  BY <1>2
<1>12. Covered(g[n].segments) = Of(n)
  <2> HIDE DEF Of
  <2> QED BY <1>10, <1>11 DEF T
<1>13. \A i \in 1 .. n : /\ SumSizes(SubSeq(chunks, 1, i - 1)) = p[i - 1]
                         /\ SumSizes(SubSeq(chunks, 1, i - 1)) + chunks[i].length = p[i]
  <2>1. \A k \in 0 .. n : SumSizes(SubSeq(chunks, 1, k)) = p[k]
    BY <1>1, <1>6, PrefixSums
  <2> QED BY <1>3, <1>7, <2>1
<1>14. DOMAIN chunks = 1 .. n
  BY <1>1
<1> DEFINE Start(i) == SumSizes(SubSeq(chunks, 1, i - 1))
<1>15. Wanted(x) = {b \in 0 .. length - 1 :
                      \E i \in 1 .. n :
                        /\ ~chunks[i].ignore
                        /\ b + offset \in Start(i) .. Start(i) + chunks[i].length - 1}
  BY <1>1, <1>14, Zenon DEF Wanted
<1>16. \A i \in 1 .. n : /\ Start(i) = p[i - 1]
                         /\ Start(i) + chunks[i].length = p[i]
  BY <1>13
<1> HIDE DEF Start
<1>17. Of(n) = {b \in 0 .. length - 1 :
                      \E i \in 1 .. n :
                        /\ ~chunks[i].ignore
                        /\ b + offset \in Start(i) .. Start(i) + chunks[i].length - 1}
  <2>1. \A b \in 0 .. length - 1, i \in 1 .. n :
          b \in Part(i) <=> b + offset \in Start(i) .. Start(i) + chunks[i].length - 1
    <3>1. ASSUME NEW i \in 1 .. n
          PROVE  Start(i) .. Start(i) + chunks[i].length - 1 = p[i - 1] .. p[i] - 1
      <4>1. Start(i) = p[i - 1] /\ Start(i) + chunks[i].length = p[i]
        BY <1>16
      <4>2. PICK a, b, l : a = Start(i) /\ b = p[i] /\ l = chunks[i].length
        OBVIOUS
      <4>3. a \in Int /\ l \in Int /\ b = a + l
        <5>1. p[i - 1] \in Int
          BY <1>1, <1>3, <1>6 DEF SumsOf
        <5>2. chunks[i].length \in Int
          BY <1>3
        <5> QED BY <4>1, <4>2, <5>1, <5>2
      <4>4. a .. a + l - 1 = a .. b - 1
        BY ONLY <4>3
      <4> QED BY <4>1, <4>2, <4>4
    <3> QED BY <3>1, Zenon
  <2> HIDE DEF Part
  <2> QED BY <2>1
<1> HIDE DEF Of
<1> QED BY <1>1, <1>4, <1>12, <1>15, <1>17

LEMMA TransferringFields ==
  ASSUME NEW x \in CommandType, NEW segs \in Seq(SegmentType),
         NEW y, y = Transferring(x, segs)
  PROVE  /\ y.chunks = x.chunks /\ y.lists = x.lists /\ y.todo = x.todo
         /\ y.transfer = x.transfer /\ y.counter = Len(segs)
         /\ y.at = "done" => Len(segs) = 0
<1>1. PICK at, n : at = (IF segs = <<>> THEN "done" ELSE "moving") /\ n = Len(segs)
  OBVIOUS
<1>2. y = [x EXCEPT !.at = at, !.counter = n]
  BY <1>1 DEF Transferring
<1>3. /\ y.chunks = x.chunks /\ y.lists = x.lists /\ y.todo = x.todo
      /\ y.transfer = x.transfer /\ y.counter = n /\ y.at = at
  BY ONLY <1>2, x \in CommandType DEF CommandType
<1>4. at = "done" => n = 0
  BY <1>1
<1> QED BY <1>1, <1>3, <1>4

LEMMA NothingAskedYet ==
  ASSUME NEW u, NEW m, QueueFlow(u, m), Len(u.requests) \in Nat,
         NEW c, NEW segs
  PROVE  AskedSo(u, u, m, c, 0, segs)
<1>1. PICK L, z : L = Len(u.requests) /\ z = L + 1 .. L + 0
  OBVIOUS
<1>2. z = {} /\ Len(u.requests) = L + 0
  BY <1>1
<1>3. \A d : SameData(u, u, d)
  BY DEF SameData
<1>4. DataOf(u, c) = DataOf(u, c) \union z
      /\ \A x : Owed(u, c, x) = Owed(u, c, x) \union z
  BY <1>2
<1>5. \A j \in 1 .. 0 : /\ u.requests[L + j].pos = segs[j].pos
                        /\ u.requests[L + j].size = segs[j].size
  OBVIOUS
<1> QED BY <1>1, <1>2, <1>3, <1>4, <1>5, Zenon DEF AskedSo

LEMMA AskedBytesAre ==
  ASSUME NEW t, NEW c, NEW L \in Nat, NEW n \in Nat, NEW segs, Len(segs) = n,
         DataOf(t, c) = L + 1 .. L + n,
         \A j \in 1 .. n : /\ t.requests[L + j].pos = segs[j].pos
                           /\ t.requests[L + j].size = segs[j].size
  PROVE  AskedBytes(t, c) = Covered(segs)
<1>1. \A r \in L + 1 .. L + n : r - L \in 1 .. n /\ L + (r - L) = r
  OBVIOUS
<1>2. \A j \in 1 .. n : L + j \in L + 1 .. L + n
  OBVIOUS
<1> DEFINE B(r) == t.requests[r].pos .. t.requests[r].pos + t.requests[r].size - 1
<1>3. \A x : x \in AskedBytes(t, c) <=> \E r \in L + 1 .. L + n : x \in B(r)
  BY DEF AskedBytes
<1>4. \A x : x \in Covered(segs) <=> \E j \in 1 .. n : x \in BytesOf(segs[j])
  BY DEF Covered
<1>5. \A j \in 1 .. n : B(L + j) = BytesOf(segs[j])
  BY DEF BytesOf
<1> HIDE DEF B
<1>6. ASSUME NEW x
      PROVE  (\E r \in L + 1 .. L + n : x \in B(r))
               <=> \E j \in 1 .. n : x \in BytesOf(segs[j])
  <2>1. ASSUME NEW r \in L + 1 .. L + n, x \in B(r)
        PROVE  \E j \in 1 .. n : x \in BytesOf(segs[j])
    <3>1. PICK j : j = r - L
      OBVIOUS
    <3>2. j \in 1 .. n /\ L + j = r
      BY <1>1, <3>1
    <3>3. x \in BytesOf(segs[j])
      BY <1>5, <2>1, <3>2
    <3> QED BY <3>2, <3>3
  <2>2. ASSUME NEW j \in 1 .. n, x \in BytesOf(segs[j])
        PROVE  \E r \in L + 1 .. L + n : x \in B(r)
    BY <1>2, <1>5, <2>2
  <2> QED BY <2>1, <2>2
<1>7. \A x : x \in AskedBytes(t, c) <=> x \in Covered(segs)
  BY ONLY <1>3, <1>4, <1>6
<1> QED BY ONLY <1>7

(***************************************************************************)
(* The list is known and complete: the command waits for its data, and     *)
(* what it asked for is what is wanted.                                    *)
(***************************************************************************)
LEMMA TransferFlow ==
  ASSUME NEW s, NEW k \in {0, 1}, NEW done, StateInv(s, k, done),
         NEW m, NEW x \in 0 .. Len(s.requests), FlowInv(s, m, x),
         NEW c \in 1 .. Len(s.cmds), NoneAsked(s, k, c),
         s.cmds[c].at \notin {"moving", "done"}, s.cmds[c].lists = <<>>,
         NEW t, t = Transfer(s, c)
  PROVE  /\ FlowInv(t, m, x) /\ t.cmds[c].at \in {"moving", "done"}
         /\ \A d \in 1 .. Len(s.cmds) : d # c => t.cmds[d] = s.cmds[d]
<1>1. PICK segs, y, u, g : TransferRun(s, c, t, k, done, segs, y, u, g)
  BY TransferTrace
<1>2. PICK z, n : z = s.cmds[c] /\ n = Len(segs)
  BY Zenon
<1>3. /\ y = Transferring(z, segs) /\ segs \in Seq(SegmentType)
      /\ segs = Segments(z.chunks, z.transfer.offset, z.transfer.length)
      /\ y \in CommandType /\ y.at \in {"moving", "done"}
      /\ u = Update(s, c, y) /\ g[0] = u /\ t = g[n]
  BY <1>1, <1>2, Zenon DEF TransferRun
<1>4. /\ \A i \in 0 .. n : StateInv(g[i], k, done) /\ g[i].cmds = u.cmds
      /\ \A i \in 1 .. n : g[i] = AskFor(g[i - 1], c, segs[i])
  BY <1>1, <1>2, Zenon DEF TransferRun
<1>5. /\ s.cmds \in Seq(CommandType) /\ Len(s.cmds) \in Nat /\ z \in CommandType
      /\ Len(s.requests) \in Nat /\ n \in Nat
      /\ \A i \in 1 .. n : segs[i] \in SegmentType
  <2>1. s.cmds \in Seq(CommandType) /\ Len(s.cmds) \in Nat /\ Len(s.requests) \in Nat
    BY StateFields
  <2>2. z \in CommandType
    BY <1>2, <2>1
  <2>3. n \in Nat /\ \A i \in 1 .. n : segs[i] \in SegmentType
    <3>1. segs \in Seq(SegmentType) /\ n = Len(segs)
      BY <1>2, <1>3
    <3> QED BY ONLY <3>1
  <2> QED BY <2>1, <2>2, <2>3
<1>6. /\ y.chunks = z.chunks /\ y.lists = z.lists /\ y.todo = z.todo
      /\ y.transfer = z.transfer /\ y.counter = n
      /\ y.at = "done" => n = 0
  <2>1. /\ y.chunks = z.chunks /\ y.lists = z.lists /\ y.todo = z.todo
        /\ y.transfer = z.transfer /\ y.counter = Len(segs)
        /\ y.at = "done" => Len(segs) = 0
    BY ONLY <1>3, <1>5, TransferringFields
  <2> QED BY ONLY <1>2, <2>1
<1>7. /\ QueueFlow(u, m) /\ u.requests = s.requests /\ u.cmds[c] = y
      /\ Len(u.cmds) = Len(s.cmds) /\ SameData(s, u, c)
      /\ \A d \in 1 .. Len(u.cmds) : d # c => CommandFlow(u, d, x)
  <2>1. y.transfer = s.cmds[c].transfer
    BY <1>2, <1>6
  <2> QED BY ONLY <1>3, <2>1, StateInv(s, k, done), k \in {0, 1}, FlowInv(s, m, x),
                  c \in 1 .. Len(s.cmds), UpdateFlow
<1>8. \A d \in 1 .. Len(s.cmds) : d # c => u.cmds[d] = s.cmds[d]
  <2>1. /\ y.at \in {"fetching", "fetched"} => y.lists # <<>>
        /\ s.cmds[c].at \in {"moving", "done"} => y.at \in {"moving", "done"}
        /\ NoneAsked(s, k, c) \/ y.at = "fetching"
    BY <1>3
  <2> QED BY ONLY <1>3, <2>1, StateInv(s, k, done), k \in {0, 1},
                  c \in 1 .. Len(s.cmds), UpdateKeeps
<1>9. DataOf(u, c) = {}
  <2>1. DataOf(s, c) = {}
    BY Zenon DEF StateInv, RequestsOK, DataOf
  <2> QED BY <1>7, <2>1 DEF SameData
<1>10. \A r : Owed(u, c, r) = {}
  BY <1>9 DEF Owed
<1> DEFINE T == {i \in 0 .. n : AskedSo(u, g[i], m, c, i, segs)}
<1>11. 0 \in T
  <2>1. AskedSo(u, u, m, c, 0, segs)
    BY <1>5, <1>7, NothingAskedYet
  <2> QED BY <1>3, <1>5, <2>1
<1>12. ASSUME NEW i \in 1 .. n, i - 1 \in T
       PROVE  i \in T
  <2>1. PICK j, v, w : j = i - 1 /\ v = g[j] /\ w = g[i]
    OBVIOUS
  <2>2. j \in Nat /\ j \in 0 .. n /\ i \in 0 .. n /\ i = j + 1
    BY <1>5, <2>1
  <2>3. /\ AskedSo(u, v, m, c, j, segs) /\ StateInv(v, k, done)
        /\ w = AskFor(v, c, segs[i]) /\ v.cmds = u.cmds
    BY <1>4, <1>12, <2>1, <2>2
  <2>4. c \in 1 .. Len(v.cmds) /\ Len(u.requests) \in Nat /\ segs[i] \in SegmentType
    BY <1>5, <1>7, <2>3
  <2>5. AskedSo(u, w, m, c, i, segs)
    BY ONLY <2>2, <2>3, <2>4, k \in {0, 1}, AskedStep, Zenon
  <2> QED BY <2>1, <2>2, <2>5
<1> HIDE DEF T
<1>13. \A i \in 0 .. n : i \in T
  BY <1>5, <1>11, <1>12, UpTo
<1>14. n \in 0 .. n
  BY <1>5
<1>15. AskedSo(u, t, m, c, n, segs) /\ t.cmds = u.cmds
  BY <1>3, <1>4, <1>13, <1>14 DEF T
<1>16. PICK L : L = Len(s.requests)
  OBVIOUS
<1>17. /\ QueueFlow(t, m)
       /\ \A j \in 1 .. n : /\ t.requests[L + j].pos = segs[j].pos
                            /\ t.requests[L + j].size = segs[j].size
       /\ \A d : d # c => SameData(u, t, d)
       /\ DataOf(t, c) = DataOf(u, c) \union (L + 1 .. L + n)
       /\ \A r \in 0 .. L : Owed(t, c, r) = Owed(u, c, r) \union (L + 1 .. L + n)
  BY <1>7, <1>15, <1>16, Zenon DEF AskedSo
<1>18. /\ DataOf(t, c) = L + 1 .. L + n
       /\ Owed(t, c, x) = L + 1 .. L + n
  BY <1>9, <1>10, <1>16, <1>17, Zenon
<1>19. ASSUME NEW d \in 1 .. Len(t.cmds), d # c
       PROVE  CommandFlow(t, d, x)
  <2>1. /\ CommandFlow(u, d, x) /\ SameData(u, t, d) /\ t.cmds[d] = u.cmds[d]
    BY <1>7, <1>15, <1>17, <1>19
  <2> QED BY <2>1, SameCommandFlow
<1>20. CommandFlow(t, c, x)
  <2>1. t.cmds[c] = y
    BY <1>7, <1>15
  <2>2. CommandFlow(s, c, x)
    BY DEF FlowInv
  <2>3. ~Chained(z.transfer) => ListKnown(z)
    BY <1>2, <2>2 DEF CommandFlow
  <2>4. ~Chained(y.transfer) => ListKnown(y)
    BY <1>6, <2>3, SameListKnown
  <2>5. Cardinality(L + 1 .. L + n) = n
    <3>1. L + 1 \in Int /\ L + n \in Int /\ L \in Nat
      BY <1>5, <1>16
    <3>2. Cardinality(L + 1 .. L + n) =
            IF L + 1 > L + n THEN 0 ELSE (L + n) - (L + 1) + 1
      BY <3>1, FS_Interval
    <3> QED BY <1>5, <3>1, <3>2
  <2>6. y.counter = Cardinality(Owed(t, c, x)) /\ (y.at = "done" => y.counter = 0)
    BY <1>6, <1>18, <2>5
  <2>7. ASSUME ~Chained(y.transfer)
        PROVE  AskedBytes(t, c) = Wanted(y.transfer)
    <3>1. ListKnown(z)
      BY <1>6, <2>3, <2>7
    <3>2. z.chunks = Data(z.transfer)
      BY <1>2, <3>1 DEF ListKnown
    <3>3. z.transfer \in TransferType /\ z.chunks \in Seq(ChunkType)
      BY <1>5, CommandFields
    <3>4. Covered(segs) = Wanted(z.transfer)
      BY <1>3, <3>2, <3>3, SegmentsCover
    <3>5. AskedBytes(t, c) = Covered(segs)
      <4>1. L \in Nat /\ n \in Nat /\ Len(segs) = n
        BY <1>2, <1>5, <1>16
      <4>2. /\ DataOf(t, c) = L + 1 .. L + n
            /\ \A j \in 1 .. n : /\ t.requests[L + j].pos = segs[j].pos
                                 /\ t.requests[L + j].size = segs[j].size
        BY <1>17, <1>18
      <4> QED BY ONLY <4>1, <4>2, AskedBytesAre
    <3> QED BY <1>6, <3>4, <3>5
  <2> QED BY <2>1, <2>4, <2>6, <2>7 DEF CommandFlow
<1>21. \A d \in 1 .. Len(t.cmds) : CommandFlow(t, d, x)
  BY <1>19, <1>20
<1>22. t.cmds[c].at \in {"moving", "done"}
  BY <1>3, <1>7, <1>15
<1>23. \A d \in 1 .. Len(s.cmds) : d # c => t.cmds[d] = s.cmds[d]
  BY <1>8, <1>15
<1> QED BY <1>17, <1>21, <1>22, <1>23 DEF FlowInv

-----------------------------------------------------------------------------
(***************************************************************************)
(* What the firmware knows of a list, and the pages of the list.           *)
(***************************************************************************)
Flattens(h, a) ==
  \A i \in 1 .. Len(a) : h[i] = IF i = 1 THEN a[i] ELSE h[i - 1] \o a[i]

LEMMA FlattenExists ==
  ASSUME NEW a \in Seq(Seq(ChunkType)), a # <<>>
  PROVE  \E h : Flattens(h, a) /\ \A i \in 1 .. Len(a) : h[i] \in Seq(ChunkType)
<1>1. PICK n, S, b : n = Len(a) - 1 /\ S = Seq(ChunkType) /\ b = a[1]
  OBVIOUS
<1>2. /\ n \in Nat /\ b \in S /\ \A i \in 1 .. n : a[i + 1] \in S
  BY <1>1
<1>3. PICK step : step = [i \in 1 .. n |-> [v \in S |-> v \o a[i + 1]]]
  BY Zenon
<1>4. step \in [1 .. n -> [S -> S]]
  <2>1. \A i \in 1 .. n, v \in S : v \o a[i + 1] \in S
    BY <1>1, <1>2
  <2> QED BY <1>3, <2>1
<1>5. PICK g : IsTrace(g, n, S, b, step)
  BY ONLY <1>2, <1>4, LoopTrace, Zenon
<1>6. /\ g \in [0 .. n -> S] /\ g[0] = b
      /\ \A i \in 1 .. n : g[i] = step[i][g[i - 1]]
  BY <1>5 DEF IsTrace
<1>7. \A i \in 1 .. n : g[i] = g[i - 1] \o a[i + 1]
  <2>1. \A i \in 1 .. n : g[i - 1] \in S
    BY <1>2, <1>6
  <2> QED BY <1>3, <1>6, <2>1, Zenon
<1>8. PICK h : h = [i \in 1 .. n + 1 |-> g[i - 1]]
  BY Zenon
<1>9. Len(a) = n + 1
  BY <1>1
<1>10. \A i \in 1 .. n + 1 : h[i] \in S /\ h[i] = IF i = 1 THEN a[i] ELSE h[i - 1] \o a[i]
  <2>1. ASSUME NEW i \in 1 .. n + 1
        PROVE  h[i] \in S /\ h[i] = IF i = 1 THEN a[i] ELSE h[i - 1] \o a[i]
    <3>1. i - 1 \in 0 .. n /\ h[i] = g[i - 1]
      BY <1>2, <1>8
    <3>2. CASE i = 1
      BY <1>1, <1>6, <3>1, <3>2
    <3>3. CASE i # 1
      <4>1. PICK j : j = i - 1
        OBVIOUS
      <4>2. j \in 1 .. n /\ j \in 1 .. n + 1 /\ j + 1 = i
        BY <1>2, <3>3, <4>1
      <4>3. g[j] = g[j - 1] \o a[j + 1] /\ h[j] = g[j - 1]
        BY <1>7, <1>8, <4>2, Zenon
      <4> QED BY <1>6, <3>1, <3>3, <4>1, <4>2, <4>3, Zenon
    <3> QED BY <3>2, <3>3
  <2> QED BY <2>1
<1> QED BY <1>1, <1>9, <1>10, Zenon DEF Flattens

LEMMA FlattenIs ==
  ASSUME NEW a \in Seq(Seq(ChunkType)), a # <<>>, NEW h, Flattens(h, a)
  PROVE  FlattenSeq(a) = h[Len(a)]
<1> DEFINE n == Len(a)
           f == CHOOSE f : f = [i \in 1 .. n |->
                  IF i = 1 THEN a[i] ELSE f[i - 1] \o a[i]]
<1>1. n \in Nat \ {0}
  OBVIOUS
<1>2. FlattenSeq(a) = f[n]
  <2>1. Len(a) # 0
    BY <1>1
  <2> QED BY <2>1, Zenon DEF FlattenSeq
<1>3. \A i \in 1 .. n : h[i] = IF i = 1 THEN a[i] ELSE h[i - 1] \o a[i]
  BY DEF Flattens
<1> HIDE DEF n
<1>4. PICK g : g = [i \in 1 .. n |-> h[i]]
  BY Zenon
<1>5. g = [i \in 1 .. n |-> IF i = 1 THEN a[i] ELSE g[i - 1] \o a[i]]
  <2>1. ASSUME NEW i \in 1 .. n
        PROVE  h[i] = IF i = 1 THEN a[i] ELSE g[i - 1] \o a[i]
    <3>1. i # 1 => i - 1 \in 1 .. n
      BY <1>1
    <3>2. i # 1 => g[i - 1] = h[i - 1]
      BY <1>4, <3>1
    <3> QED BY <1>3, <3>2
  <2> QED BY <1>4, <2>1, Zenon
<1>6. f = [i \in 1 .. n |-> IF i = 1 THEN a[i] ELSE f[i - 1] \o a[i]]
  BY <1>5, Zenon
<1> HIDE DEF f
<1> DEFINE T == {i \in 0 .. n - 1 : f[i + 1] = h[i + 1]}
<1>7. 0 \in T
  <2>1. 0 \in 0 .. n - 1 /\ 0 + 1 = 1 /\ 1 \in 1 .. n
    BY <1>1
  <2> QED BY <1>3, <1>6, <2>1
<1>8. ASSUME NEW i \in 1 .. n - 1, i - 1 \in T
      PROVE  i \in T
  <2>1. PICK j : j = i + 1
    OBVIOUS
  <2>2. i \in 0 .. n - 1 /\ j \in 1 .. n /\ j # 1 /\ j - 1 = i /\ (i - 1) + 1 = i
    BY <1>1, <2>1
  <2>3. f[i] = h[i]
    BY <1>8, <2>2
  <2>4. f[j] = f[i] \o a[j] /\ h[j] = h[i] \o a[j]
    BY <1>3, <1>6, <2>2, Zenon
  <2> QED BY <2>1, <2>2, <2>3, <2>4, Zenon
<1> HIDE DEF T
<1>9. \A i \in 0 .. n - 1 : i \in T
  <2>1. PICK m : m = n - 1
    OBVIOUS
  <2>2. m \in Nat
    BY <1>1, <2>1
  <2>3. \A i \in 1 .. m : i - 1 \in T => i \in T
    BY <1>8, <2>1
  <2>4. \A i \in 0 .. m : i \in T
    BY ONLY <1>7, <2>2, <2>3, UpTo, Zenon
  <2> QED BY <2>1, <2>4
<1>10. n - 1 \in 0 .. n - 1 /\ (n - 1) + 1 = n
  BY <1>1
<1> QED BY <1>2, <1>9, <1>10, Zenon DEF T, n

LEMMA FlattenNothing ==
  ASSUME NEW a \in Seq(Seq(ChunkType)), Len(a) = 0
  PROVE  FlattenSeq(a) = <<>>
BY DEF FlattenSeq

LEMMA FlattenType ==
  ASSUME NEW a \in Seq(Seq(ChunkType))
  PROVE  FlattenSeq(a) \in Seq(ChunkType)
<1>1. CASE a = <<>>
  <2>1. Len(a) = 0
    BY <1>1
  <2>2. FlattenSeq(a) = <<>>
    BY <2>1, FlattenNothing, Zenon
  <2> QED BY <2>2
<1>2. CASE a # <<>>
  <2>1. PICK h : Flattens(h, a) /\ \A i \in 1 .. Len(a) : h[i] \in Seq(ChunkType)
    BY <1>2, FlattenExists
  <2>2. Len(a) \in 1 .. Len(a)
    BY <1>2
  <2> QED BY <1>2, <2>1, <2>2, FlattenIs, Zenon
<1> QED BY <1>1, <1>2

LEMMA FlattenMore ==
  ASSUME NEW a \in Seq(Seq(ChunkType)), NEW k \in 1 .. Len(a),
         NEW b, b = SubSeq(a, 1, k - 1), NEW c, c = SubSeq(a, 1, k)
  PROVE  FlattenSeq(c) = FlattenSeq(b) \o a[k]
<1>1. /\ b \in Seq(Seq(ChunkType)) /\ Len(b) = k - 1 /\ k \in Nat
      /\ c \in Seq(Seq(ChunkType)) /\ Len(c) = k /\ c[k] = a[k]
      /\ \A i \in 1 .. k - 1 : b[i] = c[i] /\ i \in 1 .. k
      /\ k \in 1 .. k /\ c # <<>> /\ a[k] \in Seq(ChunkType)
  <2>1. PICK S : S = Seq(ChunkType)
    OBVIOUS
  <2>2. a \in Seq(S) /\ k \in 1 .. Len(a) /\ Len(a) \in Nat
    BY <2>1
  <2>3. b \in Seq(S) /\ Len(b) = k - 1 /\ \A i \in 1 .. k - 1 : b[i] = a[i]
    BY ONLY <2>2, b = SubSeq(a, 1, k - 1)
  <2>4. c \in Seq(S) /\ Len(c) = k /\ \A i \in 1 .. k : c[i] = a[i]
    BY ONLY <2>2, c = SubSeq(a, 1, k)
  <2>5. /\ k \in Nat /\ k \in 1 .. k /\ a[k] \in S
        /\ \A i \in 1 .. k - 1 : i \in 1 .. k
    BY ONLY <2>2
  <2>6. c # <<>>
    BY ONLY <2>4, <2>5
  <2> QED BY <2>1, <2>3, <2>4, <2>5, <2>6, Zenon
<1>2. PICK h : Flattens(h, c) /\ \A i \in 1 .. Len(c) : h[i] \in Seq(ChunkType)
  BY <1>1, FlattenExists, Zenon
<1>3. FlattenSeq(c) = h[k]
  BY <1>1, <1>2, FlattenIs, Zenon
<1>4. h[k] = IF k = 1 THEN c[k] ELSE h[k - 1] \o c[k]
  BY <1>1, <1>2 DEF Flattens
<1>5. CASE k = 1
  <2>1. FlattenSeq(b) = <<>>
    <3>1. Len(b) = 0
      BY <1>1, <1>5
    <3> QED BY <1>1, <3>1, FlattenNothing, Zenon
  <2>2. PICK e : e = a[k]
    OBVIOUS
  <2>3. <<>> \o e = e
    BY ONLY <1>1, <2>2
  <2> QED BY <1>1, <1>3, <1>4, <1>5, <2>1, <2>2, <2>3, Zenon
<1>6. CASE k # 1
  <2>1. Flattens(h, b)
    BY <1>1, <1>2 DEF Flattens
  <2>2. b # <<>>
    <3>1. PICK n : n = Len(b)
      OBVIOUS
    <3>2. n = k - 1 /\ k \in Nat
      BY <1>1, <3>1
    <3>3. n # 0
      BY ONLY <1>6, <3>2
    <3> QED BY ONLY <3>1, <3>3
  <2>3. FlattenSeq(b) = h[k - 1]
    BY <1>1, <2>1, <2>2, FlattenIs, Zenon
  <2> QED BY <1>1, <1>3, <1>4, <1>6, <2>3, Zenon
<1> QED BY <1>5, <1>6, Zenon

(***************************************************************************)
(* SGLs.                                                                   *)
(***************************************************************************)
LEMMA NoElements ==
  ASSUME NEW S, NEW a \in Seq(S), Len(a) = 0
  PROVE  a = <<>>
OBVIOUS

PagesOfList(t, l) ==
  [i \in DOMAIN l.lists |->
     IF t.kind \in {"prp", "queue"} /\ i < Len(l.lists)
     THEN Front(l.lists[i]) ELSE l.lists[i]]

LEMMA DataIs ==
  ASSUME NEW t, NEW l, l = NewList(t), NEW pages, pages = PagesOfList(t, l)
  PROVE  Data(t) = l.chunks \o FlattenSeq(pages)
BY Zenon DEF Data, PagesOfList

LEMMA AllChunksKnown ==
  ASSUME NEW t \in TransferType, NEW l, l = NewList(t), l.lists = <<>>
  PROVE  Data(t) = l.chunks
<1>1. l.chunks \in Seq(ChunkType)
  BY NewListType DEF ListType
<1>2. PICK pages : pages = PagesOfList(t, l)
  OBVIOUS
<1>3. pages = <<>>
  <2>1. DOMAIN l.lists = 1 .. 0
    OBVIOUS
  <2>2. pages \in [1 .. 0 -> Seq(ChunkType)]
    BY <1>2, <2>1 DEF PagesOfList
  <2>3. pages \in Seq(Seq(ChunkType)) /\ Len(pages) = 0
    BY <2>2
  <2> QED BY <2>3, NoElements
<1>4. FlattenSeq(pages) = <<>>
  <2>1. pages \in Seq(Seq(ChunkType)) /\ Len(pages) = 0
    BY <1>3
  <2> QED BY <2>1, FlattenNothing, Zenon
<1>5. Data(t) = l.chunks \o FlattenSeq(pages)
  BY <1>2, DataIs, Zenon
<1> QED BY <1>1, <1>4, <1>5

LEMMA SGLData ==
  ASSUME NEW t \in TransferType, t.kind = "sgl"
  PROVE  Data(t) = FlattenSeq(t.segments)
<1>1. PICK segs : segs = t.segments
  OBVIOUS
<1>2. segs \in Seq(Seq(ChunkType))
  BY <1>1, TransferFields
<1>3. PICK l : l = NewList(t)
  OBVIOUS
<1>4. l = SGL(segs)
  BY <1>1, <1>3 DEF NewList
<1>5. CASE Len(segs) = 1 /\ Len(segs[1]) = 1
  <2>1. l.chunks = segs[1] /\ l.lists = <<>>
    BY <1>4, <1>5 DEF SGL, Parsed
  <2>2. Data(t) = segs[1]
    BY <1>3, <2>1, AllChunksKnown
  <2>3. segs # <<>>
    BY ONLY <1>5
  <2>4. PICK h : Flattens(h, segs)
    BY <1>2, <2>3, FlattenExists
  <2>5. FlattenSeq(segs) = h[1]
    BY <1>2, <1>5, <2>3, <2>4, FlattenIs, Zenon
  <2>6. h[1] = segs[1]
    BY <1>5, <2>4 DEF Flattens
  <2> QED BY <1>1, <2>2, <2>5, <2>6
<1>6. CASE ~(Len(segs) = 1 /\ Len(segs[1]) = 1)
  <2>1. l.chunks = <<>> /\ l.lists = segs
    BY <1>4, <1>6 DEF SGL, Listed
  <2>2. PICK pages : pages = PagesOfList(t, l)
    OBVIOUS
  <2>3. pages = segs
    <3>1. pages = [i \in DOMAIN segs |-> segs[i]]
      BY <1>1, <2>1, <2>2, Zenon DEF PagesOfList
    <3>2. segs = [i \in DOMAIN segs |-> segs[i]]
      BY <1>2
    <3> QED BY <3>1, <3>2
  <2>4. Data(t) = l.chunks \o FlattenSeq(pages)
    BY <1>3, <2>2, DataIs, Zenon
  <2>5. PICK e : e = FlattenSeq(segs)
    OBVIOUS
  <2>6. e \in Seq(ChunkType)
    BY <1>2, <2>5, FlattenType
  <2>7. <<>> \o e = e
    BY ONLY <2>6
  <2> QED BY <1>1, <2>1, <2>3, <2>4, <2>5, <2>7
<1> QED BY <1>5, <1>6

LEMMA SGLSegmentKnown ==
  ASSUME NEW z \in CommandType, z.lists # <<>>, z.transfer.kind = "sgl",
         ListKnown(z), NEW p, p = parseSGLSegment(z)
  PROVE  ListKnown(p)
<1>1. PICK segs, n : segs = z.transfer.segments /\ n = Len(segs)
  BY Zenon
<1>2. PICK S : S = Seq(ChunkType)
  OBVIOUS
<1>3. segs \in Seq(S) /\ n \in Nat
  <2>1. segs \in Seq(Seq(ChunkType))
    BY <1>1, CommandFields, TransferFields
  <2> QED BY <1>1, <1>2, <2>1
<1>4. PICK i \in 0 .. n - 1 : /\ z.lists = SubSeq(segs, i + 1, n)
                              /\ z.chunks = Flattened(segs)[i]
  BY <1>1 DEF ListKnown
<1>5. PICK k, rest : k = i + 1 /\ rest = SubSeq(segs, k + 1, n)
  BY Zenon
<1>6. k \in 1 .. n /\ i = k - 1 /\ i \in 0 .. n /\ k \in 0 .. n /\ k \in Nat
  BY <1>3, <1>5
<1>7. Head(z.lists) = segs[k] /\ Tail(z.lists) = rest
  <2>1. PICK a : a = SubSeq(segs, k, n)
    BY Zenon
  <2>2. /\ a \in Seq(S) /\ Len(a) = n - k + 1 /\ a # <<>>
        /\ \A j \in 1 .. n - k + 1 : a[j] = segs[k + j - 1]
    <3>0. n = Len(segs)
      BY <1>1
    <3>1. a \in Seq(S) /\ Len(a) = n - k + 1
      BY ONLY <3>0, <1>3, <1>6, <2>1
    <3>2. \A j \in 1 .. n - k + 1 : a[j] = segs[k + j - 1]
      BY ONLY <3>0, <1>3, <1>6, <2>1
    <3>3. n - k + 1 # 0
      BY ONLY <1>3, <1>6
    <3> QED BY ONLY <3>1, <3>2, <3>3
  <2>3. /\ rest \in Seq(S) /\ Len(rest) = n - k
        /\ \A j \in 1 .. n - k : rest[j] = segs[k + j]
    BY ONLY <1>1, <1>3, <1>5, <1>6
  <2>4. Head(a) = segs[k]
    BY ONLY <1>3, <1>6, <2>2
  <2>5. PICK b : b = Tail(a)
    BY Zenon
  <2>6. /\ b \in Seq(S) /\ Len(b) = n - k
        /\ \A j \in 1 .. n - k : b[j] = a[j + 1]
    BY ONLY <1>3, <1>6, <2>2, <2>5
  <2>7. \A j \in 1 .. n - k : b[j] = rest[j]
    <3>1. \A j \in 1 .. n - k : j + 1 \in 1 .. n - k + 1 /\ k + (j + 1) - 1 = k + j
      BY ONLY <1>3, <1>6
    <3> QED BY <2>2, <2>3, <2>6, <3>1, Zenon
  <2>8. b = rest
    BY ONLY <2>3, <2>6, <2>7
  <2> QED BY <1>4, <1>5, <2>1, <2>4, <2>5, <2>8, Zenon
<1>8. /\ p.chunks = z.chunks \o segs[k] /\ p.lists = rest /\ p.todo = z.todo
      /\ p.transfer = z.transfer
  BY <1>7, Zenon DEF parseSGLSegment, CommandType
<1>9. \A j \in 0 .. n : Flattened(segs)[j] = FlattenSeq(SubSeq(segs, 1, j))
  BY <1>1 DEF Flattened
<1>10. p.chunks = FlattenSeq(SubSeq(segs, 1, k))
  <2>1. PICK b, c : b = SubSeq(segs, 1, k - 1) /\ c = SubSeq(segs, 1, k)
    BY Zenon
  <2>2. FlattenSeq(c) = FlattenSeq(b) \o segs[k]
    BY <1>1, <1>2, <1>3, <1>6, <2>1, FlattenMore, Zenon
  <2> QED BY <1>4, <1>6, <1>8, <1>9, <2>1, <2>2, Zenon
<1>11. CASE k = n
  <2>1. rest = <<>>
    BY <1>3, <1>5, <1>6, <1>11
  <2>2. SubSeq(segs, 1, n) = segs
    BY ONLY <1>1, <1>3
  <2>3. Data(z.transfer) = FlattenSeq(segs)
    BY <1>1, CommandFields, SGLData
  <2>4. p.chunks = Data(p.transfer)
    BY <1>8, <1>10, <1>11, <2>2, <2>3, Zenon
  <2> QED BY <1>8, <2>1, <2>4 DEF ListKnown
<1>12. CASE k # n
  <2>1. k \in 0 .. n - 1
    BY <1>3, <1>6, <1>12
  <2>2. rest # <<>>
    <3>1. Len(rest) = n - k
      BY ONLY <1>1, <1>3, <1>5, <1>6
    <3>2. n - k # 0
      BY ONLY <1>3, <1>6, <1>12
    <3> QED BY <3>1, <3>2
  <2>3. p.lists = SubSeq(segs, k + 1, n) /\ p.chunks = Flattened(segs)[k]
    BY <1>5, <1>6, <1>8, <1>9, <1>10
  <2> QED BY <1>1, <1>8, <2>1, <2>2, <2>3 DEF ListKnown
<1> QED BY <1>11, <1>12

(***************************************************************************)
(* PRP lists of one page.                                                  *)
(***************************************************************************)
LEMMA QuotientIsEnough ==
  ASSUME NEW size \in Nat, NEW w \in Nat \ {0}
  PROVE  size <= ((size + w - 1) \div w) * w
OBVIOUS

LEMMA QuotientIsLess ==
  ASSUME NEW a \in Nat, NEW w \in Nat \ {0}, NEW b \in Nat, a < b * w
  PROVE  a \div w \in Nat /\ a \div w < b
<1>1. a \div w \in Nat
  OBVIOUS
<1>2. a \div w < b
  OBVIOUS
<1> QED BY <1>1, <1>2

LEMMA NextProduct ==
  ASSUME NEW size \in Nat, NEW w \in Nat \ {0}, NEW k \in Nat, size <= k * w
  PROVE  size + w - 1 < (k + 1) * w
OBVIOUS

LEMMA DIVCEILCovers ==
  ASSUME NEW size \in Nat, NEW w \in Nat \ {0}, NEW n, n = DIVCEIL(size, w)
  PROVE  /\ n \in Nat /\ size <= n * w
         /\ \A k \in Nat : size <= k * w => n <= k
<1>1. n = (size + w - 1) \div w
  BY DEF DIVCEIL
<1>2. size <= n * w
  BY <1>1, QuotientIsEnough
<1>3. PICK a : a = size + w - 1
  OBVIOUS
<1>4. a \in Nat /\ n = a \div w
  BY <1>1, <1>3
<1>5. n \in Nat
  BY ONLY <1>4, w \in Nat \ {0}
<1>6. ASSUME NEW k \in Nat, size <= k * w
      PROVE  n <= k
  <2>1. a < (k + 1) * w
    BY <1>3, <1>6, NextProduct
  <2>2. PICK b : b = k + 1
    OBVIOUS
  <2>3. b \in Nat /\ a < b * w
    BY <2>1, <2>2
  <2>4. n < b
    BY ONLY <1>4, <2>3, w \in Nat \ {0}, QuotientIsLess
  <2> QED BY <1>5, <2>2, <2>4
<1> QED BY <1>2, <1>5, <1>6

LEMMA PagesFields ==
  ASSUME NEW n \in Nat, NEW a, a = Pages(n)
  PROVE  /\ a \in Seq(ChunkType) /\ Len(a) = n
         /\ \A i \in 1 .. n : a[i].length = PageSize /\ ~a[i].ignore
<1>1. a \in Seq(ChunkType)
  BY PagesType
<1>2. a = [i \in 1 .. n |-> Chunk(PageSize, FALSE)]
  BY DEF Pages
<1>3. Len(a) = n
  BY <1>2
<1>4. PICK c : c = Chunk(PageSize, FALSE)
  BY Zenon
<1>5. c.length = PageSize /\ ~c.ignore
  BY <1>4 DEF Chunk
<1>6. \A i \in 1 .. n : a[i] = c
  BY <1>2, <1>4
<1> QED BY <1>1, <1>3, <1>5, <1>6

LEMMA SumOfPages ==
  ASSUME NEW n \in Nat, NEW k \in 0 .. n
  PROVE  SumSizes(SubSeq(Pages(n), 1, k)) = k * PageSize
<1>1. PICK a : a = Pages(n)
  OBVIOUS
<1>2. /\ a \in Seq(ChunkType) /\ Len(a) = n
      /\ \A i \in 1 .. n : a[i].length = PageSize
  BY <1>1, PagesFields
<1>3. PageSize \in Nat
  BY DMAListsAssumption
<1>4. PICK g : g = [i \in 0 .. n |-> i * PageSize]
  BY Zenon
<1>5. g \in [0 .. n -> Int] /\ g[0] = 0
  <2>1. \A i \in 0 .. n : i * PageSize \in Int
    BY <1>3
  <2>2. 0 \in 0 .. n /\ 0 * PageSize = 0
    BY <1>3
  <2> QED BY <1>4, <2>1, <2>2
<1>6. ASSUME NEW i \in 1 .. n
      PROVE  g[i] = g[i - 1] + a[i].length
  <2>1. i \in 0 .. n /\ i - 1 \in 0 .. n
    OBVIOUS
  <2>2. g[i] = i * PageSize /\ g[i - 1] = (i - 1) * PageSize
    BY <1>4, <2>1
  <2>3. i * PageSize = (i - 1) * PageSize + PageSize
    BY <1>3
  <2> QED BY <1>2, <2>2, <2>3
<1>7. SumsOf(g, a)
  BY <1>2, <1>5, <1>6 DEF SumsOf
<1>8. SumSizes(SubSeq(a, 1, k)) = g[k]
  BY <1>2, <1>7, PrefixSums
<1> QED BY <1>1, <1>4, <1>8

LEMMA MinIs ==
  ASSUME NEW S, S \subseteq Nat, NEW n \in S, \A k \in S : n <= k
  PROVE  Min(S) = n
<1>1. \A x \in S : (\A y \in S : x <= y) => x = n
  OBVIOUS
<1> QED BY <1>1, Zenon DEF Min

LEMMA CoveringPages ==
  ASSUME NEW size \in Nat, NEW n, n = DIVCEIL(size, PageSize)
  PROVE  /\ n \in Nat /\ Covering(Pages(n), size) = Pages(n)
         /\ size <= SumSizes(Pages(n))
<1>1. PageSize \in Nat \ {0}
  BY DMAListsAssumption
<1>2. /\ n \in Nat /\ size <= n * PageSize
      /\ \A k \in Nat : size <= k * PageSize => n <= k
  BY <1>1, DIVCEILCovers
<1>3. PICK a : a = Pages(n)
  OBVIOUS
<1>4. a \in Seq(ChunkType) /\ Len(a) = n
  BY <1>2, <1>3, PagesFields
<1>5. PICK E : E = {k \in 0 .. n : SumSizes(SubSeq(a, 1, k)) >= size}
  BY Zenon
<1>6. \A k \in 0 .. n : SumSizes(SubSeq(a, 1, k)) = k * PageSize
  BY <1>2, <1>3, SumOfPages
<1>7. n \in E /\ \A k \in E : k \in Nat /\ n <= k
  <2>1. n \in 0 .. n /\ n * PageSize \in Nat
    BY <1>1, <1>2
  <2>2. n \in E
    BY <1>2, <1>5, <1>6, <2>1
  <2>3. ASSUME NEW k \in E
        PROVE  k \in Nat /\ n <= k
    <3>1. k \in 0 .. n /\ k * PageSize >= size
      BY <1>5, <1>6
    <3> QED BY <1>1, <1>2, <3>1
  <2> QED BY <2>2, <2>3
<1>8. Min(E) = n /\ E # {}
  BY <1>7, MinIs
<1>9. SubSeq(a, 1, n) = a
  BY ONLY <1>4, <1>2
<1>10. Covering(a, size) = a
  <2>1. Covering(a, size) = SubSeq(a, 1, IF E = {} THEN Len(a) ELSE Min(E))
    BY <1>4, <1>5 DEF Covering
  <2> QED BY <1>8, <1>9, <2>1
<1>11. SumSizes(a) = n * PageSize
  <2>1. n \in 0 .. n
    BY <1>2
  <2> QED BY <1>6, <1>9, <2>1, Zenon
<1> QED BY <1>2, <1>3, <1>10, <1>11

LEMMA OnePage ==
  ASSUME NEW size \in Nat, NEW n, n = DIVCEIL(size, PageSize)
  PROVE  /\ PRP(size) # <<>>
         /\ Len(PRP(size)) <= 1 => PRP(size) = <<Pages(n)>>
<1>1. PICK full, k : /\ full = ListEntries - 1
                     /\ k = IF n <= ListEntries THEN 0
                            ELSE DIVCEIL(n - ListEntries, full)
  OBVIOUS
<1>2. PICK front, page, last :
        /\ front = [i \in 1 .. k |-> Append(Pages(full), Pointer)]
        /\ page = Pages(n - k * full) /\ last = <<page>>
  BY Zenon
<1>3. PRP(size) = front \o last
  BY <1>1, <1>2 DEF PRP
<1>4. n \in Nat /\ ListEntries \in Nat /\ full \in Nat \ {0}
  <2>1. n \in Nat
    BY DMAListsAssumption, DIVCEILCovers
  <2> QED BY <1>1, <2>1, DMAListsAssumption
<1>5. k \in Nat /\ (n > ListEntries => k # 0)
  <2>1. CASE n <= ListEntries
    BY <1>1, <1>4, <2>1
  <2>2. CASE n > ListEntries
    <3>1. n - ListEntries \in Nat /\ n - ListEntries # 0
      BY <1>4, <2>2
    <3>2. k = DIVCEIL(n - ListEntries, full)
      BY <1>1, <1>4, <2>2
    <3>3. k \in Nat /\ n - ListEntries <= k * full
      BY <1>4, <3>1, <3>2, DIVCEILCovers
    <3>4. k = 0 => k * full = 0
      BY <1>4
    <3> QED BY <3>1, <3>3, <3>4
  <2> QED BY <1>4, <2>1, <2>2
<1>6. PICK e : e = Append(Pages(full), Pointer)
  BY Zenon
<1>8. PICK S : S = {e, page}
  BY Zenon
<1>9. front \in Seq(S) /\ last \in Seq(S) /\ Len(last) = 1 /\ Len(front) = k
  <2>1. e \in S /\ page \in S
    BY <1>8
  <2>2. last \in Seq(S) /\ Len(last) = 1
    BY ONLY <1>2, <2>1
  <2>3. front = [i \in 1 .. k |-> e]
    BY <1>2, <1>6
  <2>4. front \in Seq(S) /\ Len(front) = k
    BY ONLY <1>5, <2>1, <2>3
  <2> QED BY <2>2, <2>4
<1>10. Len(front \o last) = k + 1 /\ (front = <<>> => front \o last = last)
  <2>1. Len(front \o last) = k + 1
    <3>1. front \in Seq(S) /\ last \in Seq(S)
      BY <1>9
    <3>2. Len(front \o last) = Len(front) + Len(last)
      BY ONLY <3>1
    <3> QED BY <1>9, <3>2
  <2>2. <<>> \o last = last
    BY ONLY <1>9
  <2> QED BY <2>1, <2>2, Zenon
<1>11. PRP(size) # <<>>
  BY <1>3, <1>5, <1>10
<1>12. ASSUME k = 0
       PROVE  front = <<>> /\ page = Pages(n)
  <2>1. Len(front) = 0
    BY <1>9, <1>12
  <2>2. front = <<>>
    BY ONLY <1>9, <2>1, NoElements
  <2>3. n - k * full = n
    BY <1>4, <1>12
  <2> QED BY <1>2, <2>2, <2>3
<1> QED BY <1>2, <1>3, <1>5, <1>10, <1>11, <1>12

(***************************************************************************)
(* What is not an SGL and must be fetched is the PRP list of its size.     *)
(***************************************************************************)
LEMMA PRPNewList ==
  ASSUME NEW t \in TransferType, t.kind # "sgl", NEW l, l = NewList(t),
         l.lists # <<>>
  PROVE  \E size \in Nat : l.lists = PRP(size) /\ l.todo = size
                           /\ t.kind \in {"prp", "queue"}
<1>1. t.kind \in {"prp", "cont", "queue"} /\ t.total \in Nat
  BY TransferFields
<1>2. \A chunks : Parsed(chunks).lists = <<>>
  BY DEF Parsed
<1>3. \A chunks, lists, todo : Listed(chunks, lists, todo).lists = lists
                               /\ Listed(chunks, lists, todo).todo = todo
  BY DEF Listed
<1>4. CASE t.kind = "prp"
  <2>1. l = PRPList(t.total)
    BY <1>4 DEF NewList
  <2>2. PICK size : size = t.total - PageSize
    OBVIOUS
  <2>3. ~(t.total <= PageSize) /\ ~(t.total <= 2 * PageSize)
    BY <1>2, <2>1 DEF PRPList
  <2>4. l = Listed(Pages(1), PRP(size), size)
    BY <2>1, <2>2, <2>3 DEF PRPList
  <2>5. size \in Nat
    BY <1>1, <2>2, <2>3, DMAListsAssumption
  <2> QED BY <1>3, <1>4, <2>4, <2>5
<1>5. CASE t.kind = "cont"
  <2>1. l = PRPListOfQueue(t.total, TRUE)
    BY <1>5 DEF NewList
  <2> QED BY <1>2, <2>1 DEF PRPListOfQueue
<1>6. CASE t.kind = "queue"
  <2>1. l = PRPListOfQueue(t.total, FALSE)
    BY <1>6 DEF NewList
  <2>2. l = Listed(<<>>, PRP(t.total), t.total)
    BY <2>1 DEF PRPListOfQueue
  <2> QED BY <1>1, <1>3, <1>6, <2>2
<1> QED BY <1>1, <1>4, <1>5, <1>6

(***************************************************************************)
(* The data of a list of one page.                                         *)
(***************************************************************************)
LEMMA OnePageData ==
  ASSUME NEW t \in TransferType, NEW l, l = NewList(t),
         NEW page \in Seq(ChunkType), l.lists = <<page>>
  PROVE  Data(t) = l.chunks \o page
<1>1. PICK pages : pages = PagesOfList(t, l)
  OBVIOUS
<1>2. Data(t) = l.chunks \o FlattenSeq(pages)
  BY <1>1, DataIs, Zenon
<1>3. PICK a : a = <<page>>
  BY Zenon
<1>4. DOMAIN a = 1 .. 1 /\ Len(a) = 1 /\ a[1] = page
      /\ a \in Seq(Seq(ChunkType)) /\ a # <<>>
  BY <1>3
<1>5. pages = a
  <2>1. pages = [i \in DOMAIN a |->
                   IF t.kind \in {"prp", "queue"} /\ i < Len(a)
                   THEN Front(a[i]) ELSE a[i]]
    BY <1>1, <1>3, Zenon DEF PagesOfList
  <2>2. \A i \in DOMAIN a : ~(i < Len(a))
    BY <1>4
  <2>3. pages = [i \in DOMAIN a |-> a[i]]
    BY <2>1, <2>2
  <2> QED BY <1>4, <2>3
<1>6. PICK h : Flattens(h, a)
  BY <1>4, FlattenExists
<1>7. FlattenSeq(a) = h[1] /\ h[1] = page
  <2>1. FlattenSeq(a) = h[1]
    BY <1>4, <1>6, FlattenIs, Zenon
  <2>2. h[1] = page
    BY <1>4, <1>6 DEF Flattens
  <2> QED BY <2>1, <2>2
<1> QED BY <1>2, <1>5, <1>7

(***************************************************************************)
(* A page of a PRP list has all the entries, when it is the only one.      *)
(***************************************************************************)
LEMMA PRPPageKnown ==
  ASSUME NEW z \in CommandType, z.lists # <<>>, z.transfer.kind # "sgl",
         ListKnown(z), ~Chained(z.transfer), NEW p, p = getPRPListFromPRP(z)
  PROVE  ListKnown(p) /\ p.lists = <<>> /\ p.transfer = z.transfer
<1>1. PICK t, l : t = z.transfer /\ l = NewList(t)
  OBVIOUS
<1>2. t \in TransferType /\ t.kind # "sgl" /\ l.chunks \in Seq(ChunkType)
  BY <1>1, CommandFields, NewListType DEF ListType
<1>3. z.chunks = l.chunks /\ z.lists = l.lists /\ z.todo = l.todo
  BY <1>1, Zenon DEF ListKnown
<1>4. PICK size \in Nat : l.lists = PRP(size) /\ l.todo = size
  BY <1>1, <1>2, <1>3, PRPNewList
<1>5. PICK n, page : n = DIVCEIL(size, PageSize) /\ page = Pages(n)
  OBVIOUS
<1>6. l.lists = <<page>>
  <2>1. l.lists \in Seq(Seq(ChunkType))
    BY <1>1, <1>2, NewListType DEF ListType
  <2>2. Len(l.lists) <= 1
    BY <1>1, <1>2, <2>1 DEF Chained
  <2> QED BY <1>4, <1>5, <2>2, OnePage
<1>7. page \in Seq(ChunkType) /\ Covering(page, size) = page
      /\ size <= SumSizes(page)
  <2>1. n \in Nat /\ Covering(page, size) = page /\ size <= SumSizes(page)
    BY <1>5, CoveringPages
  <2> QED BY <1>5, <2>1, PagesFields
<1>8. Head(z.lists) = page
  BY <1>3, <1>6
<1>9. PICK y, e : y = z.chunks \o page /\ e = <<>>
  BY Zenon
<1>10. p = [z EXCEPT !.chunks = y, !.lists = e, !.todo = 0]
  <2>1. SumSizes(page) \in Int
    BY <1>7, SumSizesType
  <2>2. PICK sum : sum = SumSizes(page)
    OBVIOUS
  <2>3. ~(size - sum > 0)
    BY <1>7, <2>1, <2>2
  <2>4. Covering(Head(z.lists), z.todo) = page /\ z.todo - SumSizes(page) = size - sum
    BY <1>3, <1>4, <1>7, <1>8, <2>2
  <2> QED BY <1>9, <2>3, <2>4, Zenon DEF getPRPListFromPRP
<1>11. p.chunks = y /\ p.lists = e /\ p.transfer = z.transfer
  BY <1>10 DEF CommandType
<1>12. Data(t) = l.chunks \o page
  BY <1>1, <1>2, <1>6, <1>7, OnePageData, Zenon
<1> QED BY <1>1, <1>3, <1>9, <1>11, <1>12, Zenon DEF ListKnown

(***************************************************************************)
(* A new command.                                                          *)
(***************************************************************************)
LEMMA CommandKnown ==
  ASSUME NEW t \in TransferType, NEW x, x = Command(t)
  PROVE  ListKnown(x) /\ x.transfer = t /\ x.at = "parsed"
<1>1. PICK l : l = NewList(t)
  OBVIOUS
<1>2. /\ x.chunks = l.chunks /\ x.lists = l.lists /\ x.todo = l.todo
      /\ x.transfer = t /\ x.at = "parsed"
  BY <1>1 DEF Command
<1>3. CASE l.lists = <<>>
  <2>1. x.chunks = Data(t)
    BY <1>1, <1>2, <1>3, AllChunksKnown
  <2> QED BY <1>2, <1>3, <2>1, Zenon DEF ListKnown
<1>4. CASE l.lists # <<>> /\ t.kind = "sgl"
  <2>1. PICK segs, n : segs = t.segments /\ n = Len(segs)
    BY Zenon
  <2>2. segs \in Seq(Seq(ChunkType)) /\ n \in Nat
    BY <2>1, TransferFields
  <2>3. l = SGL(segs)
    BY <1>1, <1>4, <2>1 DEF NewList
  <2>4. l.lists = segs /\ l.chunks = <<>>
    <3>1. ~(Len(segs) = 1 /\ Len(segs[1]) = 1)
      BY <1>4, <2>3 DEF SGL, Parsed
    <3> QED BY <2>3, <3>1 DEF SGL, Listed
  <2>5. n # 0
    BY <1>4, <2>1, <2>2, <2>4, NoElements
  <2>6. SubSeq(segs, 1, n) = segs
    BY ONLY <2>1, <2>2
  <2>7. Flattened(segs)[0] = <<>>
    <3>1. PICK a : a = SubSeq(segs, 1, 0)
      BY Zenon
    <3>2. a \in Seq(Seq(ChunkType)) /\ Len(a) = 0
      <4>1. PICK S : S = Seq(ChunkType)
        OBVIOUS
      <4>2. segs \in Seq(S)
        BY <2>2, <4>1
      <4>3. a \in Seq(S) /\ Len(a) = 0
        BY ONLY <3>1, <4>2
      <4> QED BY <4>1, <4>3
    <3>3. FlattenSeq(a) = <<>>
      BY <3>2, FlattenNothing, Zenon
    <3>4. 0 \in 0 .. Len(segs)
      BY <2>1, <2>2
    <3> QED BY <3>1, <3>3, <3>4 DEF Flattened
  <2>8. PICK i : i = 0
    OBVIOUS
  <2>9. i \in 0 .. n - 1 /\ i + 1 = 1
    BY <2>2, <2>5, <2>8
  <2>10. x.lists = SubSeq(segs, i + 1, n) /\ x.chunks = Flattened(segs)[i]
    BY <1>2, <2>4, <2>6, <2>7, <2>8, <2>9
  <2> QED BY <1>2, <1>4, <2>1, <2>9, <2>10, Zenon DEF ListKnown
<1>5. CASE l.lists # <<>> /\ t.kind # "sgl"
  BY <1>1, <1>2, <1>5, Zenon DEF ListKnown
<1> QED BY <1>2, <1>3, <1>4, <1>5

-----------------------------------------------------------------------------
(***************************************************************************)
(* The callbacks.  x is the request that is being answered: it is counted  *)
(* no more, and still the first one of its queue.                          *)
(***************************************************************************)
(***************************************************************************)
(* What a page or segment that was fetched adds is known to be the data's. *)
(***************************************************************************)
LEMMA ParsedKnown ==
  ASSUME NEW z \in CommandType, z.lists # <<>>, NEW p,
         p = IF z.transfer.kind = "sgl" THEN parseSGLSegment(z)
             ELSE getPRPListFromPRP(z)
  PROVE  /\ p \in CommandType /\ p.transfer = z.transfer
         /\ ~Chained(z.transfer) /\ ListKnown(z) => ListKnown(p)
<1>1. CASE z.transfer.kind = "sgl"
  <2>1. p = parseSGLSegment(z)
    BY <1>1
  <2>2. p \in CommandType
    BY <2>1, SGLSegmentTaken
  <2>3. p.transfer = z.transfer
    BY <2>1, Zenon DEF parseSGLSegment, CommandType
  <2>4. ListKnown(z) => ListKnown(p)
    BY <1>1, <2>1, SGLSegmentKnown
  <2> QED BY <2>2, <2>3, <2>4
<1>2. CASE z.transfer.kind # "sgl"
  <2>1. p = getPRPListFromPRP(z)
    BY <1>2
  <2>2. p \in CommandType
    BY <2>1, PRPPageTaken
  <2>3. p.transfer = z.transfer
    BY <2>1, Zenon DEF getPRPListFromPRP, CommandType
  <2>4. ~Chained(z.transfer) /\ ListKnown(z) => ListKnown(p)
    BY <1>2, <2>1, PRPPageKnown
  <2> QED BY <2>2, <2>3, <2>4
<1> QED BY <1>1, <1>2

LEMMA ParseListFlow ==
  ASSUME NEW s, NEW k \in {0, 1}, NEW done, StateInv(s, k, done),
         NEW m, NEW x \in 0 .. Len(s.requests), FlowInv(s, m, x), ListsGone(s),
         NEW c \in 1 .. Len(s.cmds), NoneAsked(s, k, c),
         s.cmds[c].at \notin {"moving", "done"}, s.cmds[c].lists # <<>>,
         NEW t, t = ParseList(s, c)
  PROVE  FlowInv(t, m, x) /\ ListsGone(t)
<1>1. s.cmds \in Seq(CommandType) /\ Len(s.cmds) \in Nat
  BY StateFields
<1>2. PICK z, p : /\ z = s.cmds[c]
                  /\ p = IF z.transfer.kind = "sgl" THEN parseSGLSegment(z)
                         ELSE getPRPListFromPRP(z)
  OBVIOUS
<1>3. z \in CommandType /\ z.lists # <<>>
  BY <1>1, <1>2
<1>4. /\ p \in CommandType /\ p.transfer = z.transfer
      /\ ~Chained(z.transfer) /\ ListKnown(z) => ListKnown(p)
  <2>1. p = IF z.transfer.kind = "sgl" THEN parseSGLSegment(z)
            ELSE getPRPListFromPRP(z)
    BY <1>2
  <2> QED BY ONLY <1>3, <2>1, ParsedKnown
<1>5. PICK y : y = [p EXCEPT !.at = "parsed"]
  BY Zenon
<1>6. /\ y.chunks = p.chunks /\ y.lists = p.lists /\ y.todo = p.todo
      /\ y.transfer = p.transfer /\ y.at = "parsed"
  BY <1>4, <1>5, WithAtFields
<1>7. y \in CommandType
  <2>1. PICK at : at = "parsed"
    OBVIOUS
  <2>2. at \in {"parsed", "fetching", "fetched", "moving", "done"}
        /\ y = [p EXCEPT !.at = at]
    BY <1>5, <2>1
  <2> QED BY ONLY <1>4, <2>2, WithAt
<1>8. PICK u : u = Update(s, c, y)
  OBVIOUS
<1>9. /\ QueueFlow(u, m) /\ u.requests = s.requests /\ u.cmds[c] = y
      /\ Len(u.cmds) = Len(s.cmds)
      /\ \A d \in 1 .. Len(u.cmds) : d # c => CommandFlow(u, d, x)
  <2>1. y.transfer = s.cmds[c].transfer
    BY <1>2, <1>4, <1>6
  <2> QED BY ONLY <1>7, <1>8, <2>1, FlowInv(s, m, x), StateInv(s, k, done),
                  k \in {0, 1}, c \in 1 .. Len(s.cmds), UpdateFlow
<1>10. /\ StateInv(u, k, done) /\ u.read = s.read
       /\ \A d \in 1 .. Len(s.cmds) : d # c => u.cmds[d] = s.cmds[d]
  <2>1. /\ y.at \in {"fetching", "fetched"} => y.lists # <<>>
        /\ s.cmds[c].at \in {"moving", "done"} => y.at \in {"moving", "done"}
        /\ NoneAsked(s, k, c) \/ y.at = "fetching"
    BY <1>2, <1>6
  <2> QED BY ONLY <1>7, <1>8, <2>1, StateInv(s, k, done), k \in {0, 1},
                  c \in 1 .. Len(s.cmds), UpdateKeeps
<1>11. CommandFlow(u, c, x)
  <2>1. ~Chained(z.transfer) => ListKnown(z)
    BY <1>2 DEF FlowInv, CommandFlow
  <2>2. ~Chained(y.transfer) => ListKnown(y)
    BY <1>4, <1>6, <2>1, SameListKnown
  <2> QED BY <1>6, <1>9, <2>2, WaitingCommandFlow
<1>12. \A d \in 1 .. Len(u.cmds) : CommandFlow(u, d, x)
  BY <1>9, <1>11
<1>13. FlowInv(u, m, x)
  BY <1>9, <1>12 DEF FlowInv
<1>14. NoneAsked(u, k, c)
  BY <1>9, <1>10, SameAsks
<1>15. \A d \in 1 .. Len(u.cmds) :
         d # c /\ u.cmds[d].at = "parsed" => u.cmds[d].lists = <<>>
  BY <1>9, <1>10 DEF ListsGone
<1>16. /\ c \in 1 .. Len(u.cmds) /\ u.cmds[c].at \notin {"moving", "done"}
       /\ u.cmds[c].lists = p.lists /\ x \in 0 .. Len(u.requests)
  BY <1>6, <1>9
<1>17. t = IF p.lists # <<>> THEN FetchList(u, c)
           ELSE IF cores THEN u ELSE Transfer(u, c)
  BY <1>2, <1>5, <1>8 DEF ParseList
<1>18. CASE p.lists # <<>>
  <2>1. t = FetchList(u, c)
    BY <1>17, <1>18
  <2>2. /\ FlowInv(t, m, x) /\ t.cmds[c].at = "fetching"
        /\ \A d \in 1 .. Len(u.cmds) : d # c => t.cmds[d] = u.cmds[d]
    <3>1. u.cmds[c].lists # <<>>
      BY <1>16, <1>18
    <3>2. c \in 1 .. Len(u.cmds) /\ u.cmds[c].at \notin {"moving", "done"}
          /\ StateInv(u, k, done)
      BY <1>10, <1>16
    <3> QED BY ONLY <1>13, <1>14, <2>1, <3>1, <3>2, k \in {0, 1}, FetchListFlow
  <2>3. Len(t.cmds) = Len(u.cmds)
    BY <1>10, <1>14, <1>16, <1>18, <2>1, FetchListKeeps
  <2>4. ListsGone(t)
    BY <1>15, <2>2, <2>3 DEF ListsGone
  <2> QED BY <2>2, <2>4
<1>19. CASE p.lists = <<>> /\ cores
  <2>1. t = u
    BY <1>17, <1>19
  <2>2. ListsGone(u)
    BY <1>15, <1>16, <1>19 DEF ListsGone
  <2> QED BY <1>13, <2>1, <2>2
<1>20. CASE p.lists = <<>> /\ ~cores
  <2>1. t = Transfer(u, c)
    BY <1>17, <1>20
  <2>2. /\ FlowInv(t, m, x) /\ t.cmds[c].at \in {"moving", "done"}
        /\ \A d \in 1 .. Len(u.cmds) : d # c => t.cmds[d] = u.cmds[d]
    BY <1>10, <1>13, <1>14, <1>16, <1>20, <2>1, TransferFlow
  <2>3. Len(t.cmds) = Len(u.cmds)
    BY <1>10, <1>14, <1>16, <2>1, TransferKeeps
  <2>4. ListsGone(t)
    BY <1>15, <2>2, <2>3 DEF ListsGone
  <2> QED BY <2>2, <2>4
<1> QED BY <1>18, <1>19, <1>20

(***************************************************************************)
(* The answer to a request for data is one less that its command waits     *)
(* for.                                                                    *)
(***************************************************************************)
LEMMA OthersDoNotWait ==
  ASSUME NEW s, NEW c, NEW x, x \notin DataOf(s, c), CommandFlow(s, c, 0),
         0 \notin DataOf(s, c)
  PROVE  CommandFlow(s, c, x)
<1>1. Owed(s, c, x) = Owed(s, c, 0)
  BY DEF Owed
<1> QED BY <1>1 DEF CommandFlow

LEMMA OwedIsFinite ==
  ASSUME NEW s, Len(s.requests) \in Nat, NEW c, NEW x
  PROVE  IsFiniteSet(Owed(s, c, x))
<1>1. PICK n : n = Len(s.requests)
  OBVIOUS
<1>2. 1 \in Int /\ n \in Int
  BY <1>1
<1>3. IsFiniteSet(1 .. n)
  BY <1>2, FS_Interval
<1>4. Owed(s, c, x) \subseteq 1 .. n
  BY <1>1 DEF Owed, DataOf
<1> QED BY <1>3, <1>4, FS_Subset, Zenon

LEMMA DataMovedFlow ==
  ASSUME NEW s, NEW k \in {0, 1}, NEW done, StateInv(s, k, done),
         NEW m, FlowInv(s, m, 0), ListsGone(s),
         NEW c \in 1 .. Len(s.cmds), NEW x \in DataOf(s, c), x \in Requested(s),
         NEW t, t = DataMoved(s, c)
  PROVE  FlowInv(t, m, x) /\ ListsGone(t)
<1>1. s.cmds \in Seq(CommandType) /\ Len(s.cmds) \in Nat /\ Len(s.requests) \in Nat
  BY StateFields
<1>2. /\ x \in 1 .. Len(s.requests) /\ s.requests[x].cmd = c
      /\ s.requests[x].what = "data"
  BY DEF DataOf
<1>3. PICK z, n, at, w, y :
        /\ z = s.cmds[c] /\ n = z.counter - 1
        /\ at = (IF z.counter = 1 THEN "done" ELSE z.at)
        /\ w = [z EXCEPT !.counter = n] /\ y = [w EXCEPT !.at = at]
  BY Zenon
<1>4. z \in CommandType /\ z.at \in {"moving", "done"}
  <2>1. z.at \in {"moving", "done"}
    BY <1>2, <1>3 DEF StateInv, RequestsOK
  <2> QED BY <1>1, <1>3, <2>1
<1>5. n \in Int /\ at \in {"moving", "done"}
      /\ at \in {"parsed", "fetching", "fetched", "moving", "done"}
  <2>1. z.counter \in Int
    BY <1>4, CommandFields
  <2> QED BY <1>3, <1>4, <2>1
<1>6. w \in CommandType
  <2>1. w = [z EXCEPT !.counter = n]
    BY <1>3
  <2> QED BY ONLY <1>4, <1>5, <2>1, WithCounter
<1>7. y = [w EXCEPT !.at = at]
  BY <1>3
<1>8. y \in CommandType /\ y.at = at
  BY ONLY <1>5, <1>6, <1>7, WithAt
<1>9. /\ w.chunks = z.chunks /\ w.lists = z.lists /\ w.todo = z.todo
      /\ w.transfer = z.transfer /\ w.counter = n
  BY <1>3, <1>4 DEF CommandType
<1>10. /\ y.chunks = z.chunks /\ y.lists = z.lists /\ y.todo = z.todo
       /\ y.transfer = z.transfer /\ y.counter = n
  <2>1. /\ y.chunks = w.chunks /\ y.lists = w.lists /\ y.todo = w.todo
        /\ y.transfer = w.transfer /\ y.counter = w.counter
    BY ONLY <1>6, <1>7, WithAtFields
  <2> QED BY <1>9, <2>1
<1>11. t = Update(s, c, y)
  BY <1>3 DEF DataMoved
<1>12. /\ QueueFlow(t, m) /\ t.requests = s.requests /\ t.cmds[c] = y
       /\ Len(t.cmds) = Len(s.cmds) /\ SameData(s, t, c)
       /\ \A d \in 1 .. Len(t.cmds) : d # c => CommandFlow(t, d, 0)
  <2>1. y.transfer = s.cmds[c].transfer
    BY <1>3, <1>10
  <2> QED BY ONLY <1>8, <1>11, <2>1, FlowInv(s, m, 0), StateInv(s, k, done),
                  k \in {0, 1}, c \in 1 .. Len(s.cmds), UpdateFlow
<1>13. \A d \in 1 .. Len(s.cmds) : d # c => t.cmds[d] = s.cmds[d]
  <2>1. /\ y.at \in {"fetching", "fetched"} => y.lists # <<>>
        /\ s.cmds[c].at \in {"moving", "done"} => y.at \in {"moving", "done"}
        /\ NoneAsked(s, k, c) \/ y.at = "fetching"
    <3>1. NoneAsked(s, k, c)
      <4>1. s.cmds[c].at # "fetching"
        BY <1>3, <1>4
      <4> QED BY <4>1 DEF StateInv, FetchedOnce, NoneAsked
    <3> QED BY <1>5, <1>8, <3>1
  <2> QED BY ONLY <1>8, <1>11, <2>1, StateInv(s, k, done), k \in {0, 1},
                  c \in 1 .. Len(s.cmds), UpdateKeeps
<1>14. ASSUME NEW d \in 1 .. Len(t.cmds), d # c
       PROVE  CommandFlow(t, d, x)
  <2>1. x \notin DataOf(t, d) /\ 0 \notin DataOf(t, d)
    BY <1>2, <1>12, <1>14 DEF DataOf
  <2> QED BY <1>12, <1>14, <2>1, OthersDoNotWait
<1>15. CommandFlow(t, c, x)
  <2>1. CommandFlow(s, c, 0)
    BY DEF FlowInv
  <2>2. /\ ~Chained(z.transfer) => ListKnown(z)
        /\ z.counter = Cardinality(Owed(s, c, 0))
        /\ z.at = "done" => z.counter = 0
        /\ ~Chained(z.transfer) => AskedBytes(s, c) = Wanted(z.transfer)
    BY <1>3, <1>4, <2>1 DEF CommandFlow
  <2>3. Owed(s, c, x) = Owed(s, c, 0) \ {x} /\ x \in Owed(s, c, 0)
    BY <1>1, <1>2 DEF Owed, DataOf
  <2>4. PICK S : S = Owed(s, c, 0)
    OBVIOUS
  <2>5. IsFiniteSet(S) /\ x \in S
    BY <1>1, <2>3, <2>4, OwedIsFinite
  <2>6. Cardinality(S \ {x}) = Cardinality(S) - 1
    BY ONLY <2>5, FS_RemoveElement, Zenon
  <2>7. Cardinality(S) \in Nat /\ Cardinality(S) # 0
    <3>1. Cardinality(S) \in Nat
      BY <2>5, FS_CardinalityType
    <3>2. S # {}
      BY <2>5
    <3> QED BY <2>5, <3>1, <3>2, FS_EmptySet
  <2>8. n = Cardinality(Owed(t, c, x))
    <3>1. Owed(t, c, x) = S \ {x}
      BY <1>12, <2>3, <2>4, SameDataOwed
    <3> QED BY <1>3, <2>2, <2>4, <2>6, <3>1
  <2>9. at = "done" => n = 0
    BY <1>3, <1>4, <2>2, <2>4, <2>7
  <2>10. AskedBytes(t, c) = AskedBytes(s, c)
    BY <1>12, SameDataOwed
  <2>11. ~Chained(y.transfer) => ListKnown(y)
    BY <1>10, <2>2, SameListKnown
  <2> QED BY <1>8, <1>10, <1>12, <2>2, <2>8, <2>9, <2>10, <2>11 DEF CommandFlow
<1>16. FlowInv(t, m, x)
  <2>1. \A d \in 1 .. Len(t.cmds) : CommandFlow(t, d, x)
    BY <1>14, <1>15
  <2> QED BY <1>12, <2>1 DEF FlowInv
<1>17. ListsGone(t)
  BY <1>5, <1>8, <1>12, <1>13 DEF ListsGone
<1> QED BY <1>16, <1>17

LEMMA WriteCallbackFlow ==
  ASSUME NEW s, NEW done, StateInv(s, 0, done),
         NEW m, FlowInv(s, m, 0), ListsGone(s),
         NEW p \in PieceType, p.last,
         1 <= Len(Writes(s)), Writes(s)[1] = p.req,
         NEW x, x = p.req, x \in Requested(s),
         NEW t, t = Callback(s, p)
  PROVE  FlowInv(t, m, x) /\ ListsGone(t)
<1>1. Len(Writes(s)) \in Nat
  BY StateFields
<1>2. 1 \in 1 .. Len(Writes(s))
  BY <1>1
<1>3. x \in 1 .. Len(s.requests) /\ s.requests[x].what = "data"
  BY <1>2 DEF StateInv, RequestsOK
<1>4. PICK c : c = s.requests[x].cmd
  OBVIOUS
<1>5. c \in 1 .. Len(s.cmds) /\ x \in DataOf(s, c)
  BY <1>3, <1>4 DEF StateInv, RequestsOK, DataOf
<1>6. t = DataMoved(s, c)
  BY <1>3, <1>4 DEF Callback
<1>7. PICK k : k = 0 /\ k \in {0, 1}
  OBVIOUS
<1>8. StateInv(s, k, done) /\ k \in {0, 1}
  BY <1>7
<1> QED BY ONLY <1>5, <1>6, <1>8, FlowInv(s, m, 0), ListsGone(s),
                x \in Requested(s), DataMovedFlow

LEMMA NoOneWaits ==
  ASSUME NEW s, NEW m, FlowInv(s, m, 0), NEW x, s.requests[x].what = "list"
  PROVE  FlowInv(s, m, x)
<1>1. ASSUME NEW c \in 1 .. Len(s.cmds)
      PROVE  CommandFlow(s, c, x)
  <2>1. CommandFlow(s, c, 0)
    BY DEF FlowInv
  <2>2. x \notin DataOf(s, c) /\ 0 \notin DataOf(s, c)
    BY DEF DataOf
  <2> QED BY <2>1, <2>2, OthersDoNotWait
<1> QED BY <1>1 DEF FlowInv

LEMMA ReadCallbackFlow ==
  ASSUME NEW s, NEW done, StateInv(s, 0, done),
         NEW m, FlowInv(s, m, 0), ListsGone(s),
         NEW p \in PieceType, p.last,
         1 <= Len(Reads(s)), Reads(s)[1] = p.req,
         NEW x, x = p.req, x \in Requested(s),
         NEW t, t = Callback(s, p)
  PROVE  FlowInv(t, m, x) /\ ListsGone(t)
<1>1. /\ Len(Reads(s)) \in Nat /\ s.cmds \in Seq(CommandType)
      /\ s.requests \in Seq(RequestType) /\ Len(s.requests) \in Nat
  BY StateFields
<1>2. /\ 1 \in 1 .. Len(Reads(s))
      /\ \A i \in 2 .. Len(Reads(s)) : i \in 1 .. Len(Reads(s)) /\ i # 1
  BY <1>1
<1>3. x \in 1 .. Len(s.requests)
  BY <1>2 DEF StateInv, RequestsOK
<1>4. PICK c : c = s.requests[x].cmd
  OBVIOUS
<1>5. c \in 1 .. Len(s.cmds)
  BY <1>3, <1>4 DEF StateInv, RequestsOK
<1>6. /\ 0 + 1 = 1 /\ 1 + 1 = 2
      /\ \A i \in 1 .. Len(Reads(s)), d \in 1 .. Len(s.cmds) :
           Asks(s, i, d) =>
             /\ s.cmds[d].at = "fetching"
             /\ \A j \in 1 .. Len(Reads(s)) : Asks(s, j, d) => i = j
  <2>1. 0 + 1 = 1 /\ 1 + 1 = 2
    OBVIOUS
  <2>2. FetchedOnce(s, 0)
    BY DEF StateInv
  <2> QED BY <2>1, <2>2 DEF FetchedOnce
<1>7. StateInv(s, 1, done)
  <2>1. FetchedOnce(s, 1)
    BY <1>2, <1>6 DEF FetchedOnce
  <2> QED BY <2>1 DEF StateInv
<1>8. PICK k : k = 1 /\ k \in {0, 1}
  OBVIOUS
<1>9. StateInv(s, k, done) /\ k \in {0, 1}
  BY <1>7, <1>8
<1>10. CASE s.requests[x].what = "data"
  <2>1. t = DataMoved(s, c)
    BY <1>4, <1>10 DEF Callback
  <2>2. x \in DataOf(s, c)
    BY <1>3, <1>4, <1>10 DEF DataOf
  <2> QED BY ONLY <1>5, <1>9, <2>1, <2>2, FlowInv(s, m, 0), ListsGone(s),
                  x \in Requested(s), DataMovedFlow
<1>11. CASE s.requests[x].what = "list"
  <2>1. Asks(s, 1, c)
    BY <1>4, <1>11 DEF Asks
  <2>2. s.cmds[c].at = "fetching"
    BY <1>2, <1>5, <1>6, <2>1
  <2>3. NoneAsked(s, k, c)
    BY <1>2, <1>5, <1>6, <1>8, <2>1 DEF NoneAsked
  <2>4. s.cmds[c].lists # <<>> /\ s.cmds[c].at \notin {"moving", "done"}
    BY <1>5, <2>2 DEF StateInv, ListsThere
  <2>5. FlowInv(s, m, x)
    BY <1>11, NoOneWaits
  <2>6. CASE cores
    <3>1. PICK z, at, y : z = s.cmds[c] /\ at = "fetched" /\ y = [z EXCEPT !.at = at]
      BY Zenon
    <3>2. z \in CommandType /\ at \in {"parsed", "fetching", "fetched", "moving", "done"}
      BY <1>1, <1>5, <3>1
    <3>3. y = [z EXCEPT !.at = at]
      BY <3>1
    <3>4. y \in CommandType
      BY ONLY <3>2, <3>3, WithAt
    <3>5. /\ y.chunks = z.chunks /\ y.lists = z.lists /\ y.todo = z.todo
          /\ y.transfer = z.transfer /\ y.at = at
      BY ONLY <3>2, <3>3, WithAtFields
    <3>6. t = Update(s, c, y)
      <4> DEFINE w == [s.cmds[c] EXCEPT !.at = "fetched"]
      <4>1. t = Update(s, c, w)
        BY <1>4, <1>11, <2>6, Zenon DEF Callback
      <4>2. y = w
        BY <3>1
      <4> HIDE DEF w
      <4> QED BY <4>1, <4>2
    <3>7. /\ QueueFlow(t, m) /\ t.cmds[c] = y
          /\ Len(t.cmds) = Len(s.cmds)
          /\ \A d \in 1 .. Len(t.cmds) : d # c => CommandFlow(t, d, x)
      <4>1. y.transfer = s.cmds[c].transfer
        BY <3>1, <3>5
      <4> QED BY ONLY <1>5, <1>9, <2>5, <3>4, <3>6, <4>1, UpdateFlow
    <3>8. \A d \in 1 .. Len(s.cmds) : d # c => t.cmds[d] = s.cmds[d]
      <4>1. /\ y.at \in {"fetching", "fetched"} => y.lists # <<>>
            /\ s.cmds[c].at \in {"moving", "done"} => y.at \in {"moving", "done"}
            /\ NoneAsked(s, k, c) \/ y.at = "fetching"
        BY <2>3, <2>4, <3>1, <3>5
      <4> QED BY ONLY <1>5, <1>9, <3>4, <3>6, <4>1, UpdateKeeps
    <3>9. CommandFlow(t, c, x)
      <4>1. ~Chained(z.transfer) => ListKnown(z)
        BY <1>5, <2>5, <3>1 DEF FlowInv, CommandFlow
      <4>2. ~Chained(y.transfer) => ListKnown(y)
        BY <3>5, <4>1, SameListKnown
      <4> QED BY <3>1, <3>5, <3>7, <4>2, WaitingCommandFlow, Zenon
    <3>10. FlowInv(t, m, x)
      <4>1. \A d \in 1 .. Len(t.cmds) : CommandFlow(t, d, x)
        BY <3>7, <3>9
      <4> QED BY <3>7, <4>1 DEF FlowInv
    <3>11. ListsGone(t)
      <4>1. t.cmds[c].at # "parsed"
        BY <3>1, <3>5, <3>7
      <4>2. \A d \in 1 .. Len(t.cmds) : d # c => t.cmds[d] = s.cmds[d]
        BY <3>7, <3>8
      <4>3. ASSUME NEW d \in 1 .. Len(t.cmds), t.cmds[d].at = "parsed"
            PROVE  t.cmds[d].lists = <<>>
        <5>1. d # c /\ d \in 1 .. Len(s.cmds)
          BY <3>7, <4>1, <4>3
        <5>2. t.cmds[d] = s.cmds[d]
          BY <4>2, <5>1
        <5> QED BY <4>3, <5>1, <5>2 DEF ListsGone
      <4> QED BY <4>3 DEF ListsGone
    <3> QED BY <3>10, <3>11
  <2>7. CASE ~cores
    <3>1. t = ParseList(s, c)
      BY <1>4, <1>11, <2>7 DEF Callback
    <3>2. x \in 0 .. Len(s.requests)
      BY <1>1, <1>3
    <3> QED BY ONLY <1>5, <1>9, <2>3, <2>4, <2>5, <3>1, <3>2, ListsGone(s),
                    ParseListFlow
  <2> QED BY <2>6, <2>7
<1>12. s.requests[x].what \in {"list", "data"}
  <2>1. s.requests[x] \in RequestType
    BY <1>1, <1>3
  <2> QED BY <2>1 DEF RequestType
<1> QED BY <1>10, <1>11, <1>12

-----------------------------------------------------------------------------
(***************************************************************************)
(* The first piece of a queue leaves it.                                   *)
(***************************************************************************)
LEMMA PoppedFlow ==
  ASSUME NEW a, NEW n, NEW d, NEW b, NEW l, NEW e, NEW u, NEW m,
         Flow(a, n, d, b, l, e, u, m), d # e, Len(u.requests) \in Nat,
         n >= 1, Len(a) >= 1,
         NEW x, x = (IF a[1].last THEN a[1].req ELSE 0),
         NEW c, NEW k, Continues(Tail(a), n - 1, c, k),
         NEW t, t.requests = u.requests, t.cmds = u.cmds
  PROVE  /\ Flow(c, k, d, b, l, e, t, m)
         /\ Behind(c, 0) \union Behind(b, 0)
              = (Behind(a, 0) \union Behind(b, 0)) \ {x}
         /\ x = 0 \/ u.requests[x].size # 0
<1>1. /\ Flow(Tail(a), n - 1, d, b, l, e, u, m)
      /\ a[1].req \in Behind(a, 0)
      /\ Behind(Tail(a), 0) = IF a[1].last THEN Behind(a, 0) \ {a[1].req}
                              ELSE Behind(a, 0)
  BY FlowPopped, Zenon
<1>2. Flow(c, k, d, b, l, e, u, m) /\ Behind(c, 0) = Behind(Tail(a), 0)
  BY <1>1, FlowRefines
<1>3. /\ \A r \in Behind(a, 0) : r \in 1 .. Len(u.requests)
                                 /\ DirectionOf(u, r) = d
                                 /\ u.requests[r].size # 0
      /\ \A r \in Behind(b, 0) : r \in 1 .. Len(u.requests)
                                 /\ DirectionOf(u, r) = e
                                 /\ u.requests[r].size # 0
  BY FlowDirections
<1>4. Behind(c, 0) \union Behind(b, 0) = (Behind(a, 0) \union Behind(b, 0)) \ {x}
  BY <1>1, <1>2, <1>3
<1>5. x = 0 \/ u.requests[x].size # 0
  BY <1>1, <1>3
<1>6. Extends(u, t)
  <2>1. \A r : DirectionOf(t, r) = DirectionOf(u, r)
    BY DEF DirectionOf
  <2> QED BY <2>1 DEF Extends
<1>7. m \in Seq(Int) /\ Len(m) <= Len(t.requests)
  BY <1>1 DEF Flow
<1>8. /\ \A r \in 1 .. Len(u.requests) : At(m, r) = At(m, r)
      /\ \A r \in Len(u.requests) + 1 .. Len(t.requests) :
           At(m, r) = t.requests[r].size
  BY DEF At
<1>9. Flow(c, k, d, b, l, e, t, m)
  BY <1>2, <1>6, <1>7, <1>8, FlowOver
<1> QED BY <1>4, <1>5, <1>9

LEMMA PoppedCommands ==
  ASSUME NEW u, NEW t, t.requests = u.requests, t.cmds = u.cmds,
         NEW x, Requested(t) = Requested(u) \ {x},
         x = 0 \/ u.requests[x].size # 0,
         NEW d, CommandFlow(u, d, x)
  PROVE  CommandFlow(t, d, 0)
<1>1. DataOf(t, d) = DataOf(u, d) /\ 0 \notin DataOf(u, d)
  BY DEF DataOf
<1>2. Owed(t, d, 0) = Owed(u, d, x)
  BY <1>1 DEF Owed
<1>3. AskedBytes(t, d) = AskedBytes(u, d)
  BY <1>1 DEF AskedBytes
<1> QED BY <1>2, <1>3 DEF CommandFlow

LEMMA WritePopFlow ==
  ASSUME NEW u, NEW m, NEW x, FlowInv(u, m, x), Len(u.requests) \in Nat,
         NEW w, w = u.write, WriteInv(w), w.transferPending,
         ~w.dma, ~w.submitCompletion,
         NEW p, p = w.transfer[1], x = (IF p.last THEN p.req ELSE 0),
         NEW t, t.write = transferWriteDoneNext(w), t.read = u.read,
         t.requests = u.requests, t.cmds = u.cmds
  PROVE  FlowInv(t, m, 0)
<1>1. PICK v : v = t.write
  OBVIOUS
<1>2. v = transferWriteDoneNext(w)
  BY <1>1
<1>3. /\ CrossedW(w) = 1 /\ Len(PiecesW(w)) >= 1
      /\ w.transfer[1] = PiecesW(w)[1]
      /\ Continues(Tail(PiecesW(w)), 0, PiecesW(v), CrossedW(v))
  BY <1>2, WriteFinishedFlow
<1>4. PICK a, n, b, l, c, k :
        /\ a = PiecesW(w) /\ n = CrossedW(w) /\ b = PiecesR(u.read)
        /\ l = CrossedR(u.read) /\ c = PiecesW(v) /\ k = CrossedW(v)
  OBVIOUS
<1>5. n = 1 /\ n >= 1 /\ n - 1 = 0 /\ Len(a) >= 1 /\ p = a[1]
  BY <1>3, <1>4
<1>6. Continues(Tail(a), n - 1, c, k)
  BY <1>3, <1>4, <1>5
<1>7. PICK d, e : d = "write" /\ e = "read"
  OBVIOUS
<1>8. Flow(a, n, d, b, l, e, u, m) /\ d # e
  BY <1>4, <1>7 DEF FlowInv, QueueFlow
<1>9. x = IF a[1].last THEN a[1].req ELSE 0
  BY <1>5
<1>10. /\ Flow(c, k, d, b, l, e, t, m)
       /\ Behind(c, 0) \union Behind(b, 0)
            = (Behind(a, 0) \union Behind(b, 0)) \ {x}
       /\ x = 0 \/ u.requests[x].size # 0
  BY ONLY <1>5, <1>6, <1>8, <1>9, Len(u.requests) \in Nat,
          t.requests = u.requests, t.cmds = u.cmds, PoppedFlow
<1>11. QueueFlow(t, m)
  BY <1>1, <1>4, <1>7, <1>10 DEF QueueFlow
<1>12. Requested(t) = Requested(u) \ {x}
  BY <1>1, <1>4, <1>10 DEF Requested
<1>13. ASSUME NEW g \in 1 .. Len(t.cmds)
       PROVE  CommandFlow(t, g, 0)
  <2>1. CommandFlow(u, g, x)
    BY DEF FlowInv
  <2> QED BY <1>10, <1>12, <2>1, PoppedCommands, Zenon
<1> QED BY <1>11, <1>13 DEF FlowInv

LEMMA ReadPopFlow ==
  ASSUME NEW u, NEW m, NEW x, FlowInv(u, m, x), Len(u.requests) \in Nat,
         NEW w, w = u.read, NEW done, ReadInv(w, done), w.transfer # <<>>,
         InsertedRead(w, 1), Transferred(w, 1), ~w.submitCompletion,
         NEW p, p = w.transfer[1], x = (IF p.last THEN p.req ELSE 0),
         NEW t, t.read = insertReadDoneNext(w), t.write = u.write,
         t.requests = u.requests, t.cmds = u.cmds
  PROVE  FlowInv(t, m, 0)
<1>1. PICK v : v = t.read
  OBVIOUS
<1>2. v = insertReadDoneNext(w)
  BY <1>1
<1>3. /\ CrossedR(w) >= 1 /\ Len(PiecesR(w)) >= 1
      /\ w.transfer[1] = PiecesR(w)[1]
      /\ Continues(Tail(PiecesR(w)), CrossedR(w) - 1, PiecesR(v), CrossedR(v))
  BY <1>2, ReadFinishedFlow
<1>4. PICK a, n, b, l, c, k :
        /\ a = PiecesR(w) /\ n = CrossedR(w) /\ b = PiecesW(u.write)
        /\ l = CrossedW(u.write) /\ c = PiecesR(v) /\ k = CrossedR(v)
  OBVIOUS
<1>5. n >= 1 /\ Len(a) >= 1 /\ p = a[1]
  BY <1>3, <1>4
<1>6. Continues(Tail(a), n - 1, c, k)
  BY <1>3, <1>4
<1>7. PICK d, e : d = "read" /\ e = "write"
  OBVIOUS
<1>8. Flow(a, n, d, b, l, e, u, m) /\ d # e
  <2>1. Flow(b, l, e, a, n, d, u, m)
    BY <1>4, <1>7 DEF FlowInv, QueueFlow
  <2> QED BY <1>7, <2>1, FlowSwaps
<1>9. x = IF a[1].last THEN a[1].req ELSE 0
  BY <1>5
<1>10. /\ Flow(c, k, d, b, l, e, t, m)
       /\ Behind(c, 0) \union Behind(b, 0)
            = (Behind(a, 0) \union Behind(b, 0)) \ {x}
       /\ x = 0 \/ u.requests[x].size # 0
  BY ONLY <1>5, <1>6, <1>8, <1>9, Len(u.requests) \in Nat,
          t.requests = u.requests, t.cmds = u.cmds, PoppedFlow
<1>11. QueueFlow(t, m)
  <2>1. Flow(b, l, e, c, k, d, t, m)
    BY <1>10, FlowSwaps
  <2> QED BY <1>1, <1>4, <1>7, <2>1 DEF QueueFlow
<1>12. Requested(t) = Requested(u) \ {x}
  BY <1>1, <1>4, <1>10 DEF Requested
<1>13. ASSUME NEW g \in 1 .. Len(t.cmds)
       PROVE  CommandFlow(t, g, 0)
  <2>1. CommandFlow(u, g, x)
    BY DEF FlowInv
  <2> QED BY <1>10, <1>12, <2>1, PoppedCommands, Zenon
<1> QED BY <1>11, <1>13 DEF FlowInv

-----------------------------------------------------------------------------
(***************************************************************************)
(* The ends of the pieces.                                                 *)
(***************************************************************************)
LEMMA SameQueuesInv ==
  ASSUME NEW s, NEW m, FlowInv(s, m, 0), Len(s.requests) \in Nat,
         NEW t, t.requests = s.requests, t.cmds = s.cmds,
         PiecesW(t.write) = PiecesW(s.write), CrossedW(t.write) = CrossedW(s.write),
         PiecesR(t.read) = PiecesR(s.read), CrossedR(t.read) = CrossedR(s.read)
  PROVE  FlowInv(t, m, 0) /\ Requested(t) = Requested(s)
<1>1. Extends(s, t)
  <2>1. \A r : DirectionOf(t, r) = DirectionOf(s, r)
    BY DEF DirectionOf
  <2> QED BY <2>1 DEF Extends
<1>2. PICK a, n, b, l, d, e :
        /\ a = PiecesW(s.write) /\ n = CrossedW(s.write)
        /\ b = PiecesR(s.read) /\ l = CrossedR(s.read)
        /\ d = "write" /\ e = "read"
  OBVIOUS
<1>3. Flow(a, n, d, b, l, e, s, m)
  BY <1>2 DEF FlowInv, QueueFlow
<1>4. m \in Seq(Int) /\ Len(m) <= Len(t.requests)
  BY <1>3 DEF Flow
<1>5. /\ \A r \in 1 .. Len(s.requests) : At(m, r) = At(m, r)
      /\ \A r \in Len(s.requests) + 1 .. Len(t.requests) :
           At(m, r) = t.requests[r].size
  BY DEF At
<1>6. Flow(a, n, d, b, l, e, t, m)
  BY <1>1, <1>3, <1>4, <1>5, FlowOver
<1>7. QueueFlow(t, m)
  BY <1>2, <1>6 DEF QueueFlow
<1>8. Requested(t) = Requested(s)
  BY DEF Requested
<1>9. ASSUME NEW c \in 1 .. Len(t.cmds)
      PROVE  CommandFlow(t, c, 0)
  <2>1. SameData(s, t, c)
    BY <1>8, NothingAsked
  <2>2. CommandFlow(s, c, 0)
    BY DEF FlowInv
  <2> QED BY <2>1, <2>2, SameCommandFlow
<1> QED BY <1>7, <1>8, <1>9 DEF FlowInv

LEMMA FirstRequested ==
  ASSUME NEW a, Len(a) >= 1, a \in Seq(PieceType)
  PROVE  a[1].req \in Behind(a, 0)
<1>1. Len(a) \in Nat /\ 1 \in 0 + 1 .. Len(a)
  OBVIOUS
<1> QED BY <1>1 DEF Behind

LEMMA SameLists ==
  ASSUME NEW s, ListsGone(s), NEW t, t.cmds = s.cmds
  PROVE  ListsGone(t)
BY DEF ListsGone

LEMMA FinishWriteFlow ==
  ASSUME NEW s, NEW done, StateInv(s, 0, done), s.write.submitCompletion,
         NEW m, FlowInv(s, m, 0), ListsGone(s),
         NEW q, q = NotFinishing(s.write),
         NEW u, u = Callback(WithWrite(s, q), Head(q.transfer)),
         NEW t, t = WithWrite(u, transferWriteDoneNext(u.write))
  PROVE  FlowInv(t, m, 0) /\ ListsGone(t)
<1>1. /\ s \in StateType /\ s.write \in QueueType /\ Writes(s) \in Seq(Nat)
      /\ Len(Writes(s)) \in Nat /\ Len(s.requests) \in Nat
      /\ WriteInv(s.write)
  BY StateFields, Zenon DEF StateInv
<1>2. /\ q \in QueueType /\ q.wait = s.write.wait /\ q.transfer = s.write.transfer
      /\ q.insertPending = s.write.insertPending
      /\ q.insertDone = s.write.insertDone
      /\ q.transferPending = s.write.transferPending
      /\ q.beginTransfer = s.write.beginTransfer
      /\ q.dma = s.write.dma /\ ~q.submitCompletion
  BY <1>1, Zenon DEF QueueType, NotFinishing
<1>3. WriteInv(q) /\ q.transferPending /\ ~q.dma /\ q.transfer # <<>>
  BY <1>1, <1>2 DEF WriteInv, HeadFits, BeginHasPiece
<1>4. PICK a : a = WithWrite(s, q)
  OBVIOUS
<1>5. /\ a \in StateType /\ a.write = q /\ a.read = s.read
      /\ a.cmds = s.cmds /\ a.requests = s.requests
  <2>1. s \in StateType /\ q \in QueueType
    BY <1>1, <1>2
  <2> QED BY ONLY <1>4, <2>1, WithQueue
<1>6. Reads(a) = Reads(s) /\ Writes(a) = Writes(s)
  BY <1>2, <1>5 DEF Reads, Writes, Unanswered, Waiting
<1>7. StateInv(a, 0, done)
  <2>1. ReadInv(s.read, done)
    BY DEF StateInv
  <2> QED BY <1>3, <1>5, <1>6, <2>1, QueuesGoOn
<1>8. FlowInv(a, m, 0) /\ ListsGone(a)
  <2>1. PiecesW(q) = PiecesW(s.write) /\ CrossedW(q) = CrossedW(s.write)
    BY <1>2 DEF PiecesW, CrossedW, Pieces, Waiting
  <2>2. ListsGone(a)
    BY <1>5 DEF ListsGone
  <2> QED BY <1>1, <1>5, <2>1, <2>2, SameQueuesInv
<1>9. PICK p : p = q.transfer[1]
  OBVIOUS
<1>10. Head(q.transfer) = p
  BY <1>2, <1>3, <1>9, QueueFields, HeadAndTail
<1>11. u = Callback(a, p)
  BY <1>4, <1>10
<1>12. PICK v : v = transferWriteDoneNext(q)
  OBVIOUS
<1>13. /\ p \in PieceType
       /\ Unanswered(v, v.insertPending) \in Seq(Nat)
       /\ p.last => Writes(a) = <<p.req>> \o Unanswered(v, v.insertPending)
  BY <1>2, <1>3, <1>5, <1>9, <1>12, WriteFinishedLemma, Zenon DEF Writes
<1>14. p.last => 1 <= Len(Writes(a)) /\ Writes(a)[1] = p.req
  BY <1>13, WithoutFirst, PieceFields
<1>15. p.req \in Requested(a)
  <2>1. Len(PiecesW(q)) >= 1 /\ p = PiecesW(q)[1]
    BY <1>2, <1>3, <1>9, <1>12, WriteFinishedFlow
  <2>2. PiecesW(q) \in Seq(PieceType)
    BY <1>3, WritePieces
  <2> QED BY <1>5, <2>1, <2>2, FirstRequested DEF Requested
<1>16. PICK x : x = IF p.last THEN p.req ELSE 0
  OBVIOUS
<1>17. FlowInv(u, m, x) /\ ListsGone(u)
  <2>1. CASE p.last
    <3>1. x = p.req /\ x \in Requested(a)
      BY <1>15, <1>16, <2>1
    <3> QED BY <1>7, <1>8, <1>11, <1>13, <1>14, <2>1, <3>1, WriteCallbackFlow
  <2>2. CASE ~p.last
    <3>1. u = a /\ x = 0
      BY <1>11, <1>16, <2>2, NotTheLast
    <3> QED BY <1>8, <3>1
  <2> QED BY <2>1, <2>2
<1>18. /\ StateInv(u, 0, done) /\ Grows(a, u)
  <2>1. CASE p.last
    BY <1>7, <1>11, <1>13, <1>14, <2>1, WriteCallbackKeeps
  <2>2. CASE ~p.last
    <3>1. u = a
      BY <1>11, <2>2, NotTheLast
    <3> QED BY <1>7, <2>2, <3>1, GrowsRefl
  <2> QED BY <2>1, <2>2
<1>19. PICK w, y : w = u.write /\ y = transferWriteDoneNext(w)
  BY Zenon
<1>20. /\ WriteInv(w) /\ w.transferPending /\ ~w.dma /\ ~w.submitCompletion
       /\ w.transfer[1] = p
  BY <1>2, <1>3, <1>5, <1>9, <1>18, <1>19
     DEF StateInv, Grows, WriteKept, FrontKept
<1>21. WriteInv(y) /\ u \in StateType /\ y \in QueueType /\ Len(u.requests) \in Nat
  <2>1. WriteInv(y)
    BY <1>19, <1>20, WriteFinishedLemma, Zenon
  <2>2. u \in StateType /\ Len(u.requests) \in Nat
    BY <1>18, StateFields
  <2> QED BY <2>1, <2>2 DEF WriteInv
<1>22. /\ t.write = y /\ t.read = u.read
       /\ t.cmds = u.cmds /\ t.requests = u.requests
  <2>1. t = WithWrite(u, y)
    BY <1>19
  <2> QED BY ONLY <1>21, <2>1, WithQueue
<1>23. FlowInv(t, m, 0)
  <2>1. p = w.transfer[1] /\ t.write = transferWriteDoneNext(w) /\ w = u.write
    BY <1>19, <1>20, <1>22
  <2>2. FlowInv(u, m, x) /\ Len(u.requests) \in Nat
    BY <1>17, <1>21
  <2> QED BY ONLY <1>16, <1>20, <1>22, <2>1, <2>2, WritePopFlow
<1>24. ListsGone(t)
  BY ONLY <1>17, <1>22, SameLists
<1> QED BY <1>23, <1>24

LEMMA FinishReadFlow ==
  ASSUME NEW s, NEW done, StateInv(s, 0, done), s.read.submitCompletion,
         NEW m, FlowInv(s, m, 0), ListsGone(s),
         NEW q, q = NotFinishing(s.read),
         NEW u, u = Callback(WithRead(s, q), Head(q.transfer)),
         NEW t, t = WithRead(u, insertReadDoneNext(u.read))
  PROVE  FlowInv(t, m, 0) /\ ListsGone(t)
<1>1. /\ s \in StateType /\ s.read \in QueueType /\ Reads(s) \in Seq(Nat)
      /\ Len(Reads(s)) \in Nat /\ Len(s.requests) \in Nat
      /\ ReadInv(s.read, done)
  BY StateFields, Zenon DEF StateInv
<1>2. /\ q \in QueueType /\ q.wait = s.read.wait /\ q.transfer = s.read.transfer
      /\ q.insertPending = s.read.insertPending
      /\ q.insertDone = s.read.insertDone
      /\ q.transferPending = s.read.transferPending
      /\ q.beginTransfer = s.read.beginTransfer
      /\ q.counter = s.read.counter
      /\ q.dma = s.read.dma /\ ~q.submitCompletion
  BY <1>1, Zenon DEF QueueType, NotFinishing
<1>3. /\ ReadInv(q, done) /\ q.transfer # <<>>
      /\ InsertedRead(q, 1) /\ Transferred(q, 1)
  <2>1. /\ \A i : InsertedRead(q, i) <=> InsertedRead(s.read, i)
        /\ \A i : Transferred(q, i) <=> Transferred(s.read, i)
    BY <1>2 DEF InsertedRead, Transferred
  <2>2. /\ InsertedRead(q, 1) /\ Transferred(q, 1) /\ q.transfer # <<>>
    BY <1>1, <1>2, <2>1 DEF ReadInv, InsertedRead
  <2>3. Halfway(q) = Halfway(s.read)
    BY <1>2, <2>1 DEF Halfway
  <2>4. Numbered(q)
    BY <1>1, <1>2 DEF ReadInv, Numbered
  <2>5. ReadInv(q, done)
    BY <1>1, <1>2, <2>2, <2>3, <2>4 DEF ReadInv, HeadFits, BeginHasPiece
  <2> QED BY <2>2, <2>5
<1>4. PICK a : a = WithRead(s, q)
  OBVIOUS
<1>5. /\ a \in StateType /\ a.read = q /\ a.write = s.write
      /\ a.cmds = s.cmds /\ a.requests = s.requests
  <2>1. s \in StateType /\ q \in QueueType
    BY <1>1, <1>2
  <2> QED BY ONLY <1>4, <2>1, WithQueue
<1>6. Reads(a) = Reads(s) /\ Writes(a) = Writes(s)
  BY <1>2, <1>5 DEF Reads, Writes, Unanswered, Waiting
<1>7. StateInv(a, 0, done)
  <2>1. WriteInv(s.write)
    BY DEF StateInv
  <2> QED BY <1>3, <1>5, <1>6, <2>1, QueuesGoOn
<1>8. FlowInv(a, m, 0) /\ ListsGone(a)
  <2>1. PiecesR(q) = PiecesR(s.read) /\ CrossedR(q) = CrossedR(s.read)
    BY <1>2 DEF PiecesR, CrossedR, Pieces, Waiting
  <2>2. ListsGone(a)
    BY <1>5, Zenon DEF ListsGone
  <2> QED BY <1>1, <1>5, <2>1, <2>2, SameQueuesInv
<1>9. PICK p : p = q.transfer[1]
  OBVIOUS
<1>10. Head(q.transfer) = p
  BY <1>2, <1>3, <1>9, QueueFields, HeadAndTail
<1>11. u = Callback(a, p)
  BY <1>4, <1>10
<1>12. PICK v : v = insertReadDoneNext(q)
  OBVIOUS
<1>13. /\ p \in PieceType
       /\ Unanswered(v, v.transferPending) \in Seq(Nat)
       /\ p.last => Reads(a) = <<p.req>> \o Unanswered(v, v.transferPending)
  BY <1>2, <1>3, <1>5, <1>9, <1>12, ReadFinishedLemma, Zenon DEF Reads
<1>14. p.last => 1 <= Len(Reads(a)) /\ Reads(a)[1] = p.req
  BY <1>13, WithoutFirst, PieceFields
<1>15. p.req \in Requested(a)
  <2>1. Len(PiecesR(q)) >= 1 /\ p = PiecesR(q)[1]
    BY <1>2, <1>3, <1>9, <1>12, ReadFinishedFlow
  <2>2. PiecesR(q) \in Seq(PieceType)
    BY <1>3, ReadPieces
  <2> QED BY <1>5, <2>1, <2>2, FirstRequested DEF Requested
<1>16. PICK x : x = IF p.last THEN p.req ELSE 0
  OBVIOUS
<1>17. FlowInv(u, m, x) /\ ListsGone(u)
  <2>1. CASE p.last
    <3>1. x = p.req /\ x \in Requested(a)
      BY <1>15, <1>16, <2>1
    <3> QED BY <1>7, <1>8, <1>11, <1>13, <1>14, <2>1, <3>1, ReadCallbackFlow
  <2>2. CASE ~p.last
    <3>1. u = a /\ x = 0
      BY <1>11, <1>16, <2>2, NotTheLast
    <3> QED BY <1>8, <3>1
  <2> QED BY <2>1, <2>2
<1>18. PICK k : k = (IF p.last THEN 1 ELSE 0) /\ k \in {0, 1}
  OBVIOUS
<1>19. StateInv(u, k, done) /\ Grows(a, u)
  <2>1. CASE p.last
    BY <1>7, <1>11, <1>13, <1>14, <1>18, <2>1, ReadCallbackKeeps
  <2>2. CASE ~p.last
    <3>1. u = a
      BY <1>11, <2>2, NotTheLast
    <3> QED BY <1>7, <1>18, <2>2, <3>1, GrowsRefl
  <2> QED BY <2>1, <2>2
<1>20. PICK w, y : w = u.read /\ y = insertReadDoneNext(w)
  BY Zenon
<1>21. /\ ReadInv(w, done) /\ ~w.submitCompletion /\ w.transfer # <<>>
       /\ InsertedRead(w, 1) /\ w.transfer[1] = p
  BY <1>2, <1>3, <1>5, <1>9, <1>19, <1>20
     DEF StateInv, Grows, ReadKept, FrontKept, InsertedRead
<1>22. Transferred(w, 1)
  <2>1. /\ 1 \in 1 .. Len(q.transfer) /\ 1 \in 1 .. Len(w.transfer)
        /\ w \in QueueType
    BY <1>2, <1>3, <1>21, QueueFields DEF ReadInv
  <2>2. p.id \in done <=> HalfDone(q, 1)
    BY <1>2, <1>3, <1>9, <2>1, HalfNoted DEF ReadInv
  <2>3. p.id \in done <=> HalfDone(w, 1)
    BY <1>21, <2>1, HalfNoted DEF ReadInv
  <2> QED BY <1>3, <1>21, <2>2, <2>3 DEF HalfDone
<1>23. ReadInv(y, done) /\ u \in StateType /\ y \in QueueType /\ Len(u.requests) \in Nat
  <2>1. ReadInv(y, done)
    BY <1>20, <1>21, <1>22, ReadFinishedLemma, Zenon
  <2>2. u \in StateType /\ Len(u.requests) \in Nat
    BY <1>19, StateFields
  <2> QED BY <2>1, <2>2 DEF ReadInv
<1>24. /\ t.read = y /\ t.write = u.write
       /\ t.cmds = u.cmds /\ t.requests = u.requests
  <2>1. t = WithRead(u, y)
    BY <1>20
  <2> QED BY ONLY <1>23, <2>1, WithQueue
<1>25. FlowInv(t, m, 0)
  <2>1. p = w.transfer[1] /\ t.read = insertReadDoneNext(w) /\ w = u.read
    BY <1>20, <1>21, <1>24
  <2>2. FlowInv(u, m, x) /\ Len(u.requests) \in Nat
    BY <1>17, <1>23
  <2> QED BY ONLY <1>16, <1>21, <1>22, <1>24, <2>1, <2>2, ReadPopFlow, Zenon
<1>26. ListsGone(t)
  BY ONLY <1>17, <1>24, SameLists
<1> QED BY <1>25, <1>26

-----------------------------------------------------------------------------
(***************************************************************************)
(* The steps of the FIFO: bytes cross the bus, or a queue goes on.         *)
(***************************************************************************)
LEMMA GoingFlow ==
  ASSUME NEW s, NEW m, FlowInv(s, m, 0), Len(s.requests) \in Nat,
         NEW a, NEW n, NEW b, NEW l, NEW v,
         Flow(a, n, "write", b, l, "read", s, v),
         Behind(a, 0) = Behind(PiecesW(s.write), 0),
         Behind(b, 0) = Behind(PiecesR(s.read), 0),
         NEW t, t.requests = s.requests, t.cmds = s.cmds,
         Continues(a, n, PiecesW(t.write), CrossedW(t.write)),
         Continues(b, l, PiecesR(t.read), CrossedR(t.read))
  PROVE  FlowInv(t, v, 0)
<1>1. Extends(s, t)
  <2>1. \A r : DirectionOf(t, r) = DirectionOf(s, r)
    BY DEF DirectionOf
  <2> QED BY <2>1 DEF Extends
<1>2. PICK d, e : d = "write" /\ e = "read"
  OBVIOUS
<1>3. PICK c, k : c = PiecesW(t.write) /\ k = CrossedW(t.write)
  OBVIOUS
<1>4. PICK f, j : f = PiecesR(t.read) /\ j = CrossedR(t.read)
  OBVIOUS
<1>5. Flow(a, n, d, b, l, e, s, v)
  BY <1>2
<1>6. v \in Seq(Int) /\ Len(v) <= Len(t.requests)
  BY <1>5 DEF Flow
<1>7. /\ \A r \in 1 .. Len(s.requests) : At(v, r) = At(v, r)
      /\ \A r \in Len(s.requests) + 1 .. Len(t.requests) :
           At(v, r) = t.requests[r].size
  BY DEF At
<1>8. Flow(a, n, d, b, l, e, t, v)
  BY <1>1, <1>5, <1>6, <1>7, FlowOver
<1>9. Flow(c, k, d, b, l, e, t, v) /\ Behind(c, 0) = Behind(a, 0)
  BY <1>3, <1>8, FlowRefines
<1>10. Flow(b, l, e, c, k, d, t, v)
  BY <1>9, FlowSwaps
<1>11. Flow(f, j, e, c, k, d, t, v) /\ Behind(f, 0) = Behind(b, 0)
  BY <1>4, <1>10, FlowRefines
<1>12. QueueFlow(t, v)
  BY <1>2, <1>3, <1>4, <1>11, FlowSwaps DEF QueueFlow
<1>13. Requested(t) = Requested(s)
  BY <1>3, <1>4, <1>9, <1>11 DEF Requested
<1>14. ASSUME NEW x \in 1 .. Len(t.cmds)
       PROVE  CommandFlow(t, x, 0)
  <2>1. SameData(s, t, x)
    BY <1>13, NothingAsked
  <2>2. CommandFlow(s, x, 0)
    BY DEF FlowInv
  <2> QED BY <2>1, <2>2, SameCommandFlow
<1> QED BY <1>12, <1>14 DEF FlowInv

LEMMA WriteGoesFlow ==
  ASSUME NEW s, NEW done, StateInv(s, 0, done), NEW m, FlowInv(s, m, 0),
         NEW t, t.requests = s.requests, t.cmds = s.cmds, t.read = s.read,
         Continues(PiecesW(s.write), CrossedW(s.write),
                   PiecesW(t.write), CrossedW(t.write))
  PROVE  FlowInv(t, m, 0)
<1>1. PICK a, n, b, l :
        /\ a = PiecesW(s.write) /\ n = CrossedW(s.write)
        /\ b = PiecesR(s.read) /\ l = CrossedR(s.read)
  OBVIOUS
<1>2. Flow(a, n, "write", b, l, "read", s, m)
  BY <1>1 DEF FlowInv, QueueFlow
<1>3. Len(s.requests) \in Nat
  BY StateFields
<1>4. b \in Seq(PieceType) /\ l \in Nat /\ l <= Len(b)
  <2>1. ReadInv(s.read, done)
    BY DEF StateInv
  <2> QED BY <1>1, <2>1, ReadPieces
<1>5. Continues(b, l, PiecesR(t.read), CrossedR(t.read))
  BY <1>1, <1>4, SameFlow
<1> QED BY <1>1, <1>2, <1>3, <1>5, GoingFlow

LEMMA ReadGoesFlow ==
  ASSUME NEW s, NEW done, StateInv(s, 0, done), NEW m, FlowInv(s, m, 0),
         NEW t, t.requests = s.requests, t.cmds = s.cmds, t.write = s.write,
         Continues(PiecesR(s.read), CrossedR(s.read),
                   PiecesR(t.read), CrossedR(t.read))
  PROVE  FlowInv(t, m, 0)
<1>1. PICK a, n, b, l :
        /\ a = PiecesW(s.write) /\ n = CrossedW(s.write)
        /\ b = PiecesR(s.read) /\ l = CrossedR(s.read)
  OBVIOUS
<1>2. Flow(a, n, "write", b, l, "read", s, m)
  BY <1>1 DEF FlowInv, QueueFlow
<1>3. Len(s.requests) \in Nat
  BY StateFields
<1>4. a \in Seq(PieceType) /\ n \in Nat /\ n <= Len(a)
  <2>1. WriteInv(s.write)
    BY DEF StateInv
  <2> QED BY <1>1, <2>1, WritePieces
<1>5. Continues(a, n, PiecesW(t.write), CrossedW(t.write))
  BY <1>1, <1>4, SameFlow
<1> QED BY <1>1, <1>2, <1>3, <1>5, GoingFlow

LEMMA PieceIsThere ==
  ASSUME NEW a, NEW n, NEW d, NEW b, NEW l, NEW e, NEW s, NEW m,
         Flow(a, n, d, b, l, e, s, m), NEW k \in 1 .. Len(a), NEW p, p = a[k]
  PROVE  p.req \in 1 .. Len(s.requests)
BY DEF Flow, Carries, PiecesOf

LEMMA WriteMovedFlow ==
  ASSUME NEW s, NEW done, StateInv(s, 0, done), NEW m, FlowInv(s, m, 0),
         Len(m) = Len(s.requests), s.write.dma,
         NEW p, p = Head(s.write.transfer), NEW v, v = MovedBy(m, p),
         NEW t, t.requests = s.requests, t.cmds = s.cmds, t.read = s.read,
         t.write = WriteTransferred(s.write)
  PROVE  FlowInv(t, v, 0) /\ Len(v) = Len(s.requests)
<1>1. PICK a, n, b, l, d, e :
        /\ a = PiecesW(s.write) /\ n = CrossedW(s.write)
        /\ b = PiecesR(s.read) /\ l = CrossedR(s.read)
        /\ d = "write" /\ e = "read"
  OBVIOUS
<1>2. Flow(a, n, d, b, l, e, s, m)
  BY <1>1 DEF FlowInv, QueueFlow
<1>3. Len(s.requests) \in Nat
  BY StateFields
<1>4. /\ n = 0 /\ CrossedW(t.write) = 1 /\ PiecesW(t.write) = a
      /\ Len(a) >= 1 /\ p = a[1]
  <2>1. PICK q, w : q = s.write /\ w = t.write
    OBVIOUS
  <2>2. WriteInv(q) /\ q.dma /\ w = WriteTransferred(q)
    BY <2>1 DEF StateInv
  <2>3. /\ CrossedW(q) = 0 /\ CrossedW(w) = 1 /\ PiecesW(w) = PiecesW(q)
        /\ Len(PiecesW(q)) >= 1 /\ Head(q.transfer) = PiecesW(q)[1]
    BY ONLY <2>2, TransferWriteDoneFlow
  <2> QED BY <1>1, <2>1, <2>3
<1>5. PICK k : k = n + 1
  OBVIOUS
<1>6. /\ a \in Seq(PieceType) /\ b \in Seq(PieceType) /\ l \in Nat /\ l <= Len(b)
  BY <1>2 DEF Flow, Carries
<1>7. k = 1 /\ k \in 1 .. Len(a) /\ k <= Len(a) /\ k \in Nat /\ p = a[k]
  BY <1>4, <1>5, <1>6
<1>8. p.req <= Len(m)
  BY <1>2, <1>3, <1>7, PieceIsThere
<1>9. Flow(a, k, d, b, l, e, s, v) /\ Len(v) = Len(m)
  <2>1. d # e
    BY <1>1
  <2> QED BY ONLY <1>2, <1>3, <1>5, <1>7, <1>8, <2>1, v = MovedBy(m, p), FlowMoved
<1>10. Continues(a, k, PiecesW(t.write), CrossedW(t.write))
  BY <1>4, <1>6, <1>7, SameFlow
<1>11. Continues(b, l, PiecesR(t.read), CrossedR(t.read))
  BY <1>1, <1>6, SameFlow
<1>12. FlowInv(t, v, 0)
  BY <1>1, <1>3, <1>9, <1>10, <1>11, GoingFlow
<1> QED BY <1>9, <1>12

LEMMA ReadMovedFlow ==
  ASSUME NEW s, NEW done, StateInv(s, 0, done), NEW m, FlowInv(s, m, 0),
         Len(m) = Len(s.requests), s.read.dma,
         NEW p, p = Head(s.read.wait), NEW v, v = MovedBy(m, p),
         NEW first, first = (p.id \notin done),
         NEW t, t.requests = s.requests, t.cmds = s.cmds, t.write = s.write,
         t.read = transferRead(ReadTransferred(s.read, first))
  PROVE  FlowInv(t, v, 0) /\ Len(v) = Len(s.requests)
<1>1. PICK a, n, b, l, d, e :
        /\ a = PiecesW(s.write) /\ n = CrossedW(s.write)
        /\ b = PiecesR(s.read) /\ l = CrossedR(s.read)
        /\ d = "write" /\ e = "read"
  OBVIOUS
<1>2. Flow(b, l, e, a, n, d, s, m)
  BY <1>1, FlowSwaps DEF FlowInv, QueueFlow
<1>3. Len(s.requests) \in Nat
  BY StateFields
<1>4. PICK k : k = l + 1
  OBVIOUS
<1>5. /\ k <= Len(b) /\ p = b[k]
      /\ Continues(b, k, PiecesR(t.read), CrossedR(t.read))
  <2>1. PICK q, w : q = s.read /\ w = t.read
    OBVIOUS
  <2>2. ReadInv(q, done) /\ q.dma /\ first = (Head(q.wait).id \notin done)
        /\ w = transferRead(ReadTransferred(q, first))
    BY <2>1 DEF StateInv
  <2>3. /\ CrossedR(q) + 1 <= Len(PiecesR(q))
        /\ Head(q.wait) = PiecesR(q)[CrossedR(q) + 1]
        /\ Continues(PiecesR(q), CrossedR(q) + 1, PiecesR(w), CrossedR(w))
    BY ONLY <2>2, TransferReadDoneFlow
  <2> QED BY <1>1, <1>4, <2>1, <2>3
<1>6. /\ a \in Seq(PieceType) /\ b \in Seq(PieceType) /\ n \in Nat /\ n <= Len(a)
      /\ l \in Nat
  BY <1>2 DEF Flow, Carries
<1>7. k \in 1 .. Len(b)
  BY <1>4, <1>5, <1>6
<1>8. p.req <= Len(m)
  BY <1>2, <1>3, <1>5, <1>7, PieceIsThere
<1>9. Flow(b, k, e, a, n, d, s, v) /\ Len(v) = Len(m)
  <2>1. e # d
    BY <1>1
  <2> QED BY ONLY <1>2, <1>3, <1>4, <1>5, <1>8, <2>1, v = MovedBy(m, p), FlowMoved
<1>10. Flow(a, n, d, b, k, e, s, v)
  BY <1>9, FlowSwaps
<1>11. Continues(a, n, PiecesW(t.write), CrossedW(t.write))
  BY <1>1, <1>6, SameFlow
<1>12. FlowInv(t, v, 0)
  BY <1>1, <1>3, <1>5, <1>10, <1>11, GoingFlow
<1> QED BY <1>9, <1>12

(***************************************************************************)
(* The bytes of a new request that crossed the bus: none.                  *)
(***************************************************************************)
LEMMA NotMovedFlow ==
  ASSUME NEW t, NEW m, FlowInv(t, m, 0), Len(t.requests) \in Nat,
         NEW v, v = m \o [i \in 1 .. Len(t.requests) - Len(m) |-> 0]
  PROVE  FlowInv(t, v, 0) /\ Len(v) = Len(t.requests)
<1>1. PICK a, n, b, l, d, e :
        /\ a = PiecesW(t.write) /\ n = CrossedW(t.write)
        /\ b = PiecesR(t.read) /\ l = CrossedR(t.read)
        /\ d = "write" /\ e = "read"
  OBVIOUS
<1>2. Flow(a, n, d, b, l, e, t, m)
  BY <1>1 DEF FlowInv, QueueFlow
<1>3. PICK h, k : h = Len(t.requests) /\ k = Len(t.requests) - Len(m)
  BY Zenon
<1>4. m \in Seq(Int) /\ Len(m) <= h /\ Len(m) \in Nat /\ h \in Nat
  BY <1>2, <1>3 DEF Flow
<1>5. k \in Nat /\ h = Len(m) + k
  BY <1>3, <1>4
<1>6. PICK z : z = [i \in 1 .. k |-> 0]
  BY Zenon
<1>7. z \in Seq(Int) /\ Len(z) = k /\ \A i \in 1 .. k : z[i] = 0
  BY <1>5, <1>6
<1>8. v = m \o z
  BY <1>3, <1>6
<1>9. /\ v \in Seq(Int) /\ Len(v) = h
      /\ \A r \in 1 .. h : v[r] = IF r <= Len(m) THEN m[r] ELSE 0
  <2>1. v \in Seq(Int)
    BY ONLY <1>4, <1>7, <1>8, ConcatProperties
  <2>2. Len(v) = Len(m) + k
    BY ONLY <1>4, <1>7, <1>8, ConcatProperties, Zenon
  <2>3. ASSUME NEW r \in 1 .. h
        PROVE  v[r] = IF r <= Len(m) THEN m[r] ELSE 0
    <3>1. r \in 1 .. Len(m) + Len(z) /\ r \in Int
      BY <1>5, <1>7
    <3>2. v[r] = IF r <= Len(m) THEN m[r] ELSE z[r - Len(m)]
      BY ONLY <1>4, <1>7, <1>8, <3>1, ConcatProperties
    <3>3. ~(r <= Len(m)) => r - Len(m) \in 1 .. k
      BY <1>4, <1>5, <1>7, <3>1
    <3> QED BY <1>7, <3>2, <3>3, Zenon
  <2> QED BY <1>5, <2>1, <2>2, <2>3, Zenon
<1>10. \A r \in 1 .. h : At(v, r) = At(m, r)
  <2>1. ASSUME NEW r \in 1 .. h PROVE At(v, r) = At(m, r)
    <3>1. r <= h
      BY ONLY <1>4, r \in 1 .. h
    <3>2. r <= Len(v)
      BY ONLY <1>9, <3>1, Zenon
    <3> QED BY <1>9, <3>2, Zenon DEF At
  <2> QED BY <2>1, Zenon
<1>11. Extends(t, t)
  BY <1>3, <1>4 DEF Extends
<1>12. Flow(a, n, d, b, l, e, t, v)
  <2>1. \A r \in Len(t.requests) + 1 .. Len(t.requests) :
          At(v, r) = t.requests[r].size
    BY <1>3, <1>4
  <2>2. /\ v \in Seq(Int) /\ Len(v) <= Len(t.requests)
        /\ \A r \in 1 .. Len(t.requests) : At(v, r) = At(m, r)
    <3>1. Len(t.requests) = h
      BY <1>3
    <3>2. Len(v) <= Len(t.requests)
      BY ONLY <1>4, <1>9, <3>1
    <3> QED BY ONLY <1>9, <1>10, <3>1, <3>2, Zenon
  <2> QED BY ONLY <1>2, <1>11, <2>1, <2>2, FlowOver
<1>13. QueueFlow(t, v)
  BY <1>1, <1>12 DEF QueueFlow
<1>14. FlowInv(t, v, 0)
  BY <1>13 DEF FlowInv
<1> QED BY <1>3, <1>9, <1>14, Zenon

-----------------------------------------------------------------------------
(***************************************************************************)
(* Every step keeps TransferInv.                                           *)
(***************************************************************************)
LEMMA BecomesFlow ==
  ASSUME NEW t, NEW done, StateInv(t, 0, done), FlowInv(t, moved, 0),
         ListsGone(t), Becomes(t)
  PROVE  TransferInv'
<1>1. t \in StateType /\ Len(t.requests) \in Nat
  BY StateFields
<1>2. State' = t /\ requests' = t.requests
  BY <1>1, BecomesState, Zenon DEF Becomes
<1>3. moved' = moved \o [i \in 1 .. Len(t.requests) - Len(moved) |-> 0]
  BY DEF Becomes
<1>4. FlowInv(t, moved', 0) /\ Len(moved') = Len(t.requests)
  BY <1>1, <1>3, NotMovedFlow, Zenon
<1> QED BY <1>2, <1>4 DEF TransferInv

LEMMA NewCommandFlow ==
  ASSUME NEW s, NEW done, StateInv(s, 0, done), NEW m, FlowInv(s, m, 0),
         NEW x \in CommandType, x.at = "parsed", ListKnown(x),
         NEW u, u = [s EXCEPT !.cmds = Append(@, x)]
  PROVE  /\ FlowInv(u, m, 0)
         /\ \A d \in 1 .. Len(s.cmds) : u.cmds[d] = s.cmds[d]
<1>1. /\ s \in StateType /\ s.cmds \in Seq(CommandType) /\ Len(s.cmds) \in Nat
      /\ Len(s.requests) \in Nat
  BY StateFields
<1>2. PICK b, n : b = Append(s.cmds, x) /\ n = Len(s.cmds)
  BY Zenon
<1>3. /\ b \in Seq(CommandType) /\ Len(b) = n + 1 /\ b[n + 1] = x /\ n \in Nat
      /\ \A c \in 1 .. n : b[c] = s.cmds[c]
  BY <1>1, <1>2
<1>4. u = [s EXCEPT !.cmds = b]
  BY <1>2
<1>5. /\ u.cmds = b /\ u.requests = s.requests
      /\ u.read = s.read /\ u.write = s.write
  BY <1>1, <1>3, <1>4 DEF StateType
<1>6. \A r \in 1 .. Len(s.requests) : DirectionOf(u, r) = DirectionOf(s, r)
  <2>1. \A r \in 1 .. Len(s.requests) : s.requests[r].cmd \in 1 .. n
    BY <1>2 DEF StateInv, RequestsOK
  <2> QED BY <1>3, <1>5, <2>1 DEF DirectionOf
<1>7. QueueFlow(u, m) /\ Requested(u) = Requested(s)
  BY <1>1, <1>5, <1>6, SameQueues, Zenon DEF FlowInv
<1>8. ASSUME NEW c \in 1 .. Len(u.cmds)
      PROVE  CommandFlow(u, c, 0)
  <2>1. CASE c \in 1 .. n
    <3>1. CommandFlow(s, c, 0)
      BY <1>2, <2>1 DEF FlowInv
    <3>2. SameData(s, u, c) /\ u.cmds[c] = s.cmds[c]
      BY <1>3, <1>5, <1>7, <2>1, NothingAsked, Zenon
    <3> QED BY <3>1, <3>2, SameCommandFlow, Zenon
  <2>2. CASE c = n + 1
    <3>1. u.cmds[c] = x
      BY <1>3, <1>5, <2>2
    <3> QED BY <3>1, WaitingCommandFlow, Zenon
  <2> QED BY <1>3, <1>5, <2>1, <2>2
<1> QED BY <1>2, <1>3, <1>5, <1>7, <1>8, Zenon DEF FlowInv

LEMMA SubmitFlow ==
  ASSUME DMAInv, TransferInv, NEW r \in Transfers, Submit(r)
  PROVE  TransferInv'
<1>1. StateInv(State, 0, readCompletion)
  BY DEF DMAInv
<1>2. PICK x : x = Command(r)
  OBVIOUS
<1>3. x \in CommandType /\ x.at = "parsed" /\ ListKnown(x)
  <2>1. r \in TransferType
    BY DMAListsAssumption
  <2> QED BY <1>2, <2>1, NewCommand, CommandKnown
<1>4. PICK u : u = [State EXCEPT !.cmds = Append(@, x)]
  BY Zenon
<1>5. /\ StateInv(u, 0, readCompletion)
      /\ Len(u.cmds) = Len(State.cmds) + 1 /\ u.cmds[Len(u.cmds)] = x
      /\ Len(u.cmds) \in 1 .. Len(u.cmds)
      /\ NoneAsked(u, 0, Len(u.cmds))
  BY <1>1, <1>3, <1>4, SubmitKeeps
<1>6. PICK c : c = Len(u.cmds)
  BY Zenon
<1>7. PICK t : t = IF x.lists # <<>> THEN FetchList(u, c) ELSE u
  OBVIOUS
<1>8. c = Len(cmds) + 1
  BY <1>5, <1>6 DEF State
<1>9. Becomes(t)
  BY <1>2, <1>4, <1>5, <1>6, <1>7, <1>8 DEF Submit
<1>10. /\ FlowInv(u, moved, 0)
       /\ \A d \in 1 .. Len(State.cmds) : u.cmds[d] = State.cmds[d]
  <2>1. FlowInv(State, moved, 0)
    BY DEF TransferInv
  <2> QED BY <1>1, <1>3, <1>4, <2>1, NewCommandFlow
<1>11. /\ StateInv(t, 0, readCompletion) /\ FlowInv(t, moved, 0)
       /\ Len(t.cmds) = Len(u.cmds)
       /\ \A d \in 1 .. Len(u.cmds) : d # c => t.cmds[d] = u.cmds[d]
       /\ t.cmds[c].at = "parsed" => t.cmds[c].lists = <<>>
  <2>1. CASE x.lists # <<>>
    <3>1. PICK k : k = 0 /\ k \in {0, 1}
      OBVIOUS
    <3>2. /\ u.cmds[c].at \notin {"moving", "done"} /\ u.cmds[c].lists # <<>>
          /\ c \in 1 .. Len(u.cmds) /\ NoneAsked(u, k, c) /\ t = FetchList(u, c)
          /\ StateInv(u, k, readCompletion)
      BY <1>3, <1>5, <1>6, <1>7, <2>1, <3>1
    <3>3. StateInv(t, k, readCompletion) /\ Len(t.cmds) = Len(u.cmds)
      BY <3>1, <3>2, FetchListKeeps
    <3>4. FlowInv(t, moved, 0) /\ t.cmds[c].at = "fetching"
          /\ \A d \in 1 .. Len(u.cmds) : d # c => t.cmds[d] = u.cmds[d]
      BY <1>10, <3>1, <3>2, FetchListFlow
    <3> QED BY <3>1, <3>3, <3>4
  <2>2. CASE x.lists = <<>>
    BY <1>5, <1>6, <1>7, <1>10, <2>2
  <2> QED BY <2>1, <2>2
<1>12. ListsGone(t)
  <2>1. ListsGone(State) /\ Len(State.cmds) \in Nat
    BY <1>1, StateFields DEF TransferInv
  <2>2. ASSUME NEW d \in 1 .. Len(t.cmds), t.cmds[d].at = "parsed"
        PROVE  t.cmds[d].lists = <<>>
    <3>1. CASE d = c
      BY <1>11, <2>2, <3>1
    <3>2. CASE d # c
      <4>1. d \in 1 .. Len(State.cmds)
        BY <1>5, <1>6, <1>11, <2>1, <3>2
      <4>2. t.cmds[d] = State.cmds[d]
        BY <1>5, <1>6, <1>10, <1>11, <3>2, <4>1
      <4> QED BY <2>1, <2>2, <4>1, <4>2 DEF ListsGone
    <3> QED BY <3>1, <3>2
  <2> QED BY <2>2 DEF ListsGone
<1> QED BY <1>9, <1>11, <1>12, BecomesFlow

LEMMA FirmwareFlow ==
  ASSUME DMAInv, TransferInv, NEW c \in DOMAIN cmds, Parse(c) \/ Begin(c)
  PROVE  TransferInv'
<1>1. /\ StateInv(State, 0, readCompletion)
      /\ FlowInv(State, moved, 0) /\ ListsGone(State)
  BY DEF DMAInv, TransferInv
<1>2. State.cmds = cmds /\ State.cmds \in Seq(CommandType)
      /\ Len(State.requests) \in Nat
  BY <1>1, StateFields DEF State
<1>3. c \in 1 .. Len(State.cmds)
  BY <1>2
<1>4. State.cmds[c].at \in {"fetched", "parsed"}
  BY <1>2 DEF Parse, Begin
<1>5. NoneAsked(State, 0, c)
  BY <1>1, <1>3, <1>4 DEF StateInv, FetchedOnce, NoneAsked
<1>6. PICK k, x : k = 0 /\ k \in {0, 1} /\ x = 0 /\ x \in 0 .. Len(State.requests)
  BY <1>2
<1>7. State.cmds[c].at \notin {"moving", "done"}
  BY <1>4
<1>8. StateInv(State, k, readCompletion) /\ FlowInv(State, moved, x)
      /\ NoneAsked(State, k, c)
  BY <1>1, <1>5, <1>6
<1>9. CASE Parse(c)
  <2>1. PICK t : t = ParseList(State, c)
    OBVIOUS
  <2>2. Becomes(t) /\ State.cmds[c].at = "fetched"
    BY <1>2, <1>9, <2>1 DEF Parse
  <2>3. State.cmds[c].lists # <<>>
    BY <1>1, <1>3, <2>2 DEF StateInv, ListsThere
  <2>4. StateInv(t, k, readCompletion)
    BY <1>3, <1>6, <1>7, <1>8, <2>1, <2>3, ParseListKeeps
  <2>5. FlowInv(t, moved, x) /\ ListsGone(t)
    BY <1>1, <1>3, <1>6, <1>7, <1>8, <2>1, <2>3, ParseListFlow
  <2> QED BY <1>6, <2>2, <2>4, <2>5, BecomesFlow
<1>10. CASE Begin(c)
  <2>1. PICK t : t = Transfer(State, c)
    OBVIOUS
  <2>2. Becomes(t) /\ State.cmds[c].at = "parsed"
    BY <1>2, <1>10, <2>1 DEF Begin
  <2>3. State.cmds[c].lists = <<>>
    BY <1>1, <1>3, <2>2 DEF ListsGone
  <2>4. StateInv(t, k, readCompletion) /\ Len(t.cmds) = Len(State.cmds)
    BY <1>3, <1>6, <1>8, <2>1, TransferKeeps
  <2>5. /\ FlowInv(t, moved, x) /\ t.cmds[c].at \in {"moving", "done"}
        /\ \A d \in 1 .. Len(State.cmds) : d # c => t.cmds[d] = State.cmds[d]
    BY <1>3, <1>6, <1>7, <1>8, <2>1, <2>3, TransferFlow
  <2>6. ListsGone(t)
    BY <1>1, <2>4, <2>5 DEF ListsGone
  <2> QED BY <1>6, <2>2, <2>4, <2>5, <2>6, BecomesFlow
<1> QED BY <1>9, <1>10

LEMMA FinishesFlow ==
  ASSUME DMAInv, TransferInv, FinishWrite \/ FinishRead
  PROVE  TransferInv'
<1>1. PICK s, done, m : s = State /\ done = readCompletion /\ m = moved
  OBVIOUS
<1>2. StateInv(s, 0, done) /\ FlowInv(s, m, 0) /\ ListsGone(s)
  BY <1>1 DEF DMAInv, TransferInv
<1>3. CASE FinishWrite
  <2>1. PICK q : q = NotFinishing(s.write)
    OBVIOUS
  <2>2. PICK u : u = Callback(WithWrite(s, q), Head(q.transfer))
    OBVIOUS
  <2>3. PICK t : t = WithWrite(u, transferWriteDoneNext(u.write))
    OBVIOUS
  <2>4. s.write.submitCompletion
    BY <1>1, <1>3, StateIs DEF FinishWrite, WriteFinishes
  <2>5. Becomes(t)
    BY <1>1, <1>3, <2>1, <2>2, <2>3, StateIs, Zenon
       DEF FinishWrite, NotFinishing, WithWrite
  <2>6. StateInv(t, 0, done)
    BY ONLY <1>2, <2>1, <2>2, <2>3, <2>4, FinishWriteKeeps, Zenon
  <2>7. FlowInv(t, m, 0) /\ ListsGone(t)
    BY ONLY <1>2, <2>1, <2>2, <2>3, <2>4, FinishWriteFlow, Zenon
  <2> QED BY <1>1, <2>5, <2>6, <2>7, BecomesFlow
<1>4. CASE FinishRead
  <2>1. PICK q : q = NotFinishing(s.read)
    OBVIOUS
  <2>2. PICK u : u = Callback(WithRead(s, q), Head(q.transfer))
    OBVIOUS
  <2>3. PICK t : t = WithRead(u, insertReadDoneNext(u.read))
    OBVIOUS
  <2>4. s.read.submitCompletion
    BY <1>1, <1>4, StateIs DEF FinishRead, ReadFinishes
  <2>5. Becomes(t)
    BY <1>1, <1>4, <2>1, <2>2, <2>3, StateIs, Zenon
       DEF FinishRead, NotFinishing, WithRead
  <2>6. StateInv(t, 0, done)
    BY ONLY <1>2, <2>1, <2>2, <2>3, <2>4, FinishReadKeeps, Zenon
  <2>7. FlowInv(t, m, 0) /\ ListsGone(t)
    BY ONLY <1>2, <2>1, <2>2, <2>3, <2>4, FinishReadFlow, Zenon
  <2> QED BY <1>1, <2>5, <2>6, <2>7, BecomesFlow
<1> QED BY <1>3, <1>4

LEMMA FIFOEventFlow ==
  ASSUME DMAInv, TransferInv, FIFOEvent
  PROVE  TransferInv'
<1>1. PICK s, t, done, m, v :
        /\ s = State /\ t = State' /\ done = readCompletion
        /\ m = moved /\ v = moved'
  OBVIOUS
<1>2. /\ StateInv(s, 0, done) /\ FlowInv(s, m, 0) /\ ListsGone(s)
      /\ Len(m) = Len(s.requests)
  BY <1>1, StateIs DEF DMAInv, TransferInv
<1>3. /\ s.write = writeQueue /\ s.read = readQueue
      /\ t.write = writeQueue' /\ t.read = readQueue'
      /\ t.requests = s.requests /\ t.cmds = s.cmds /\ requests' = s.requests
  BY <1>1 DEF FIFOEvent, State
<1>4. WriteInv(s.write) /\ ReadInv(s.read, done) /\ s.read \in QueueType
  BY <1>2, StateFields, Zenon DEF StateInv
<1>5. ListsGone(t)
  BY <1>2, <1>3, SameLists
<1>6. CASE FlowInv(t, v, 0) /\ Len(v) = Len(s.requests)
  BY <1>1, <1>3, <1>5, <1>6 DEF TransferInv
<1>7. CASE v = m /\ t.read = s.read
           /\ Continues(PiecesW(s.write), CrossedW(s.write),
                        PiecesW(t.write), CrossedW(t.write))
  BY <1>2, <1>3, <1>6, <1>7, WriteGoesFlow
<1>8. CASE v = m /\ t.write = s.write
           /\ Continues(PiecesR(s.read), CrossedR(s.read),
                        PiecesR(t.read), CrossedR(t.read))
  BY <1>2, <1>3, <1>6, <1>8, ReadGoesFlow
<1>9. CASE InsertWriteDone
  <2>1. s.write.insertDone /\ t.write = insertWriteDone(s.write)
        /\ v = m /\ t.read = s.read
    BY <1>1, <1>3, <1>9 DEF InsertWriteDone
  <2> QED BY <1>4, <1>7, <2>1, InsertWriteDoneFlow
<1>10. CASE BeginTransferWrite
  <2>1. t.write = transferWrite([s.write EXCEPT !.beginTransfer = FALSE])
        /\ v = m /\ t.read = s.read
    BY <1>1, <1>3, <1>10 DEF BeginTransferWrite
  <2>2. PiecesW(t.write) = PiecesW(s.write) /\ CrossedW(t.write) = CrossedW(s.write)
    BY <1>4, <2>1, BeginTransferWriteFlow
  <2> QED BY <1>4, <1>7, <2>1, <2>2, WritePieces, SameFlow
<1>11. CASE TransferWriteDone
  <2>1. PICK p : p = Head(s.write.transfer)
    OBVIOUS
  <2>2. s.write.dma /\ v = MovedBy(m, p) /\ t.read = s.read
        /\ t.write = WriteTransferred(s.write)
    BY <1>1, <1>3, <1>11, <2>1
       DEF TransferWriteDone, WriteTransferred, Moved, MovedBy
  <2>3. FlowInv(t, v, 0) /\ Len(v) = Len(s.requests)
    BY ONLY <1>2, <1>3, <2>1, <2>2, WriteMovedFlow
  <2> QED BY <1>6, <2>3
<1>12. CASE BeginInsertRead
  <2>1. t.read = insertRead([s.read EXCEPT !.beginTransfer = FALSE])
        /\ v = m /\ t.write = s.write
    BY <1>1, <1>3, <1>12 DEF BeginInsertRead
  <2>2. PiecesR(t.read) = PiecesR(s.read) /\ CrossedR(t.read) = CrossedR(s.read)
    BY <1>4, <2>1, InsertReadFlow
  <2> QED BY <1>4, <1>8, <2>1, <2>2, ReadPieces, SameFlow
<1>13. CASE TransferReadDone
  <2>1. PICK p : p = Head(s.read.wait)
    OBVIOUS
  <2>2. PICK first : first = (p.id \notin done)
    OBVIOUS
  <2>3. s.read.dma /\ v = MovedBy(m, p) /\ t.write = s.write
        /\ t.read = transferRead(ReadTransferred(s.read, first))
    BY <1>1, <1>3, <1>13, <2>1, <2>2, Zenon
       DEF TransferReadDone, ReadTransferred, Moved, MovedBy
  <2>4. FlowInv(t, v, 0) /\ Len(v) = Len(s.requests)
    BY ONLY <1>2, <1>3, <2>1, <2>2, <2>3, ReadMovedFlow
  <2> QED BY <1>6, <2>4
<1>14. CASE InsertReadDone
  <2>1. PICK first : first = (Head(s.read.transfer).id \notin done)
    OBVIOUS
  <2>2. t.read = ReadInserted(s.read, first) /\ v = m /\ t.write = s.write
    BY <1>1, <1>3, <1>14, <2>1, Zenon DEF InsertReadDone, ReadInserted
  <2>3. PiecesR(t.read) = PiecesR(s.read) /\ CrossedR(t.read) = CrossedR(s.read)
    BY <1>4, <2>2, InsertReadDoneFlow
  <2> QED BY <1>4, <1>8, <2>2, <2>3, ReadPieces, SameFlow
<1> QED BY <1>9, <1>10, <1>11, <1>12, <1>13, <1>14 DEF FIFOEvent, FIFOStep

LEMMA EveryStepFlows ==
  ASSUME DMAInv, TransferInv, [Next]_vars
  PROVE  TransferInv'
<1>1. CASE \E t \in Transfers : Submit(t)
  BY <1>1, SubmitFlow
<1>2. CASE Firmware
  BY <1>2, FirmwareFlow DEF Firmware
<1>3. CASE FIFOEvent
  BY <1>3, FIFOEventFlow
<1>4. CASE FinishWrite \/ FinishRead
  BY <1>4, FinishesFlow
<1>5. CASE UNCHANGED vars
  BY <1>5 DEF TransferInv, State, vars, fifoVars
<1> QED BY <1>1, <1>2, <1>3, <1>4, <1>5 DEF Next

LEMMA NothingFlows ==
  ASSUME Init
  PROVE  TransferInv
<1>1. PICK e : e = <<>>
  OBVIOUS
<1>2. /\ e \in Seq(PieceType) /\ e \in Seq(Int) /\ Len(e) = 0
      /\ e \in Seq(RequestType) /\ e \in Seq(CommandType)
  BY <1>1
<1>3. PICK s, q : s = State /\ q = EmptyQueue
  OBVIOUS
<1>4. /\ s.write = q /\ s.read = q /\ s.requests = e /\ s.cmds = e
      /\ moved = e /\ requests = e
  BY <1>1, <1>3 DEF Init, FIFOInit, State
<1>5. /\ q.wait = e /\ q.transfer = e /\ q.insertPending = FALSE
      /\ q.transferPending = FALSE
  BY <1>1, <1>3 DEF EmptyQueue
<1>6. PiecesW(q) = e /\ PiecesR(q) = e /\ CrossedW(q) = 0 /\ CrossedR(q) = 0
  <2>1. e \o e = e
    BY <1>1, <1>2, ConcatEmptySeq
  <2>2. Waiting(q, q.insertPending) = e /\ Waiting(q, q.transferPending) = e
    BY <1>5 DEF Waiting
  <2>3. CrossedW(q) = 0 /\ CrossedR(q) = 0
    BY <1>2, <1>5 DEF CrossedW, CrossedR
  <2> QED BY <1>5, <2>1, <2>2, <2>3 DEF PiecesW, PiecesR, Pieces
<1>7. PICK d, r : d = "write" /\ r = "read"
  OBVIOUS
<1>8. Carries(e, 0, s, d, e) /\ Carries(e, 0, s, r, e)
  BY <1>2 DEF Carries, Linked, Ascending, PiecesOf, Crossing
<1>9. Flow(e, 0, d, e, 0, r, s, e)
  BY <1>2, <1>4, <1>8 DEF Flow
<1>10. QueueFlow(s, e)
  BY <1>4, <1>6, <1>7, <1>9 DEF QueueFlow
<1>11. FlowInv(s, e, 0) /\ ListsGone(s)
  BY <1>2, <1>4, <1>10 DEF FlowInv, ListsGone
<1> QED BY <1>3, <1>4, <1>11 DEF TransferInv

(***************************************************************************)
(* A command is done when its counter is 0: then none of its requests is   *)
(* behind what crossed the bus.                                            *)
(***************************************************************************)
LEMMA BehindLess ==
  ASSUME NEW a, NEW n \in Nat, NEW x, x \in Behind(a, n)
  PROVE  x \in Behind(a, 0)
<1>1. PICK i \in n + 1 .. Len(a) : x = a[i].req
  BY DEF Behind
<1>2. i \in 0 + 1 .. Len(a)
  OBVIOUS
<1> QED BY <1>1, <1>2 DEF Behind

LEMMA NothingOwed ==
  ASSUME NEW s, NEW m, FlowInv(s, m, 0), Len(s.requests) \in Nat,
         Len(m) = Len(s.requests),
         NEW c \in 1 .. Len(s.cmds), s.cmds[c].at = "done"
  PROVE  \A r \in DataOf(s, c) : m[r] = s.requests[r].size
<1>1. PICK a, n, b, l :
        /\ a = PiecesW(s.write) /\ n = CrossedW(s.write)
        /\ b = PiecesR(s.read) /\ l = CrossedR(s.read)
  OBVIOUS
<1>2. Flow(a, n, "write", b, l, "read", s, m)
  BY <1>1 DEF FlowInv, QueueFlow
<1>3. n \in Nat /\ l \in Nat
  BY <1>2 DEF Flow, Carries
<1>4. Owed(s, c, 0) = {}
  <2>1. Cardinality(Owed(s, c, 0)) = 0
    BY DEF FlowInv, CommandFlow
  <2> QED BY <2>1, OwedIsFinite, FS_EmptySet
<1>5. ASSUME NEW r \in DataOf(s, c)
      PROVE  m[r] = s.requests[r].size
  <2>1. r \in 1 .. Len(s.requests) /\ r # 0
    BY DEF DataOf
  <2>2. r \notin Requested(s)
    BY <1>4, <2>1 DEF Owed
  <2>3. r \notin Behind(a, n) /\ r \notin Behind(b, l)
    BY <1>1, <1>3, <2>2, BehindLess DEF Requested
  <2>4. At(m, r) = s.requests[r].size
    BY <1>2, <2>1, <2>3 DEF Flow
  <2> QED BY <2>1, <2>4 DEF At
<1> QED BY <1>5

LEMMA TransferIsComplete ==
  ASSUME DMAInv, TransferInv
  PROVE  TransferComplete
<1>1. PICK s, m : s = State /\ m = moved
  OBVIOUS
<1>2. /\ StateInv(s, 0, readCompletion) /\ FlowInv(s, m, 0)
      /\ Len(m) = Len(s.requests)
      /\ requests = s.requests /\ cmds = s.cmds
  BY <1>1, StateIs DEF DMAInv, TransferInv
<1>3. /\ s.requests \in Seq(RequestType) /\ s.cmds \in Seq(CommandType)
      /\ Len(s.requests) \in Nat
  BY <1>2, StateFields
<1>4. DOMAIN requests = 1 .. Len(s.requests) /\ DOMAIN cmds = 1 .. Len(s.cmds)
  BY <1>2, <1>3
<1>5. ASSUME NEW c \in DOMAIN cmds, ~Chained(cmds[c].transfer),
             cmds[c].at = "done"
      PROVE  Arrived(c) = Wanted(cmds[c].transfer)
  <2>1. c \in 1 .. Len(s.cmds) /\ s.cmds[c] = cmds[c]
    BY <1>2, <1>4
  <2>2. \A r \in DataOf(s, c) : m[r] = s.requests[r].size
    BY <1>2, <1>3, <1>5, <2>1, NothingOwed
  <2>3. AskedBytes(s, c) = Wanted(cmds[c].transfer)
    BY <1>2, <1>5, <2>1 DEF FlowInv, CommandFlow
  <2>4. Arrived(c) = UNION {requests[r].pos .. requests[r].pos + moved[r] - 1 :
                              r \in DataOf(s, c)}
    BY <1>2, <1>4 DEF Arrived, DataOf
  <2>5. Arrived(c) = AskedBytes(s, c)
    BY <1>1, <1>2, <2>2, <2>4 DEF AskedBytes
  <2> QED BY <2>3, <2>5
<1> QED BY <1>5 DEF TransferComplete, Whole

(***************************************************************************)
(* The firmware goes on with a command, in commonDMAHandler, when exactly  *)
(* the bytes of its list (of its PRP list, if that has one page, or of its *)
(* SGL) have crossed the bus, in order and none of them twice, whatever    *)
(* other commands have queued, and however the FIFO splits the requests.   *)
(***************************************************************************)
THEOREM TransfersAreComplete ==
  Spec => []TransferComplete
<1>1. Init => DMAInv /\ TransferInv
  BY NothingPending, NothingFlows
<1>2. DMAInv /\ TransferInv /\ [Next]_vars => DMAInv' /\ TransferInv'
  BY EveryStepGoesOn, EveryStepFlows DEF GoesOn
<1>3. DMAInv /\ TransferInv => TransferComplete
  BY TransferIsComplete
<1> QED BY <1>1, <1>2, <1>3, PTL DEF Spec
=============================================================================
