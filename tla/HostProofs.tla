----------------------------- MODULE HostProofs -----------------------------
(***************************************************************************)
(* The event engine and the host interface layer, whatever generator or    *)
(* driver is above them and for every number of cores and requests and all *)
(* latencies: the engine's list stays in order and no wake-up is lost, and *)
(* requests are completed at the tick at which they are finished.          *)
(* And the generators: block layer, generator and device agree on what is  *)
(* outstanding, the queue depth is kept, and the simulation is not stopped *)
(* before the workload is complete.                                        *)
(***************************************************************************)
EXTENDS HostStack, SequenceLemmas, FiniteSetTheorems

EventEntry == [eid : Int, tick : Nat]

(***************************************************************************)
(* A list of the engine that is in order.                                  *)
(***************************************************************************)
Sorted(q) == \A i, j \in 1 .. Len(q) : i <= j => q[i].tick <= q[j].tick
OncePerEvent(q) == \A i, j \in 1 .. Len(q) : q[i].eid = q[j].eid => i = j
InOrder(q) == q \in Seq(EventEntry) /\ Sorted(q) /\ OncePerEvent(q)
NotBefore(q, now) == \A i \in 1 .. Len(q) : now <= q[i].tick

(***************************************************************************)
(* Entries are events with ticks.                                          *)
(***************************************************************************)
LEMMA EntryTypes ==
  ASSUME NEW q \in Seq(EventEntry)
  PROVE  /\ Len(q) \in Nat
         /\ \A i \in 1 .. Len(q) : q[i] \in EventEntry /\ q[i].tick \in Nat
                                  /\ q[i].eid \in Int
<1>1. \A i \in 1 .. Len(q) : q[i] \in EventEntry
  OBVIOUS
<1> QED BY <1>1 DEF EventEntry

(***************************************************************************)
(* The place of a new entry is behind all that are due no later.           *)
(***************************************************************************)
LEMMA InsertPositionLemma ==
  ASSUME NEW q \in Seq(EventEntry), Sorted(q), NEW t \in Nat
  PROVE  /\ InsertPosition(q, t) \in 1 .. Len(q) + 1
         /\ \A i \in 1 .. Len(q) : i < InsertPosition(q, t) <=> q[i].tick <= t
<1> DEFINE later == {i \in 1 .. Len(q) : q[i].tick > t}
<1>1. \A i \in 1 .. Len(q) : q[i].tick \in Nat
  BY EntryTypes
<1>2. CASE later = {}
  <2>1. InsertPosition(q, t) = Len(q) + 1
    BY <1>2 DEF InsertPosition
  <2> QED BY <1>1, <1>2, <2>1
<1>3. CASE later # {}
  <2>1. InsertPosition(q, t) = Min(later)
    BY <1>3 DEF InsertPosition
  <2>2. Min(later) \in later /\ \A y \in later : Min(later) <= y
    <3>1. later \subseteq Nat
      OBVIOUS
    <3> QED BY <1>3, <3>1, MinLemma
  <2> HIDE DEF later
  <2>3. Min(later) \in 1 .. Len(q) /\ q[Min(later)].tick > t
    BY <2>2 DEF later
  <2>4. ASSUME NEW i \in 1 .. Len(q) PROVE i < Min(later) <=> q[i].tick <= t
    <3>1. CASE i < Min(later)
      <4>1. i \notin later
        BY <2>2, <2>3, <3>1
      <4> QED BY <1>1, <3>1, <4>1 DEF later
    <3>2. CASE ~(i < Min(later))
      <4>1. q[Min(later)].tick <= q[i].tick
        BY <2>3, <3>2 DEF Sorted
      <4> QED BY <1>1, <2>3, <3>2, <4>1
    <3> QED BY <3>1, <3>2
  <2> QED BY <2>1, <2>3, <2>4
<1> QED BY <1>2, <1>3

(***************************************************************************)
(* What r is when it is q without its entry k, and when it is q with the   *)
(* entry x at the place at.                                                *)
(***************************************************************************)
Without(q, k, r) ==
  /\ Len(r) = Len(q) - 1
  /\ \A j \in 1 .. Len(r) : r[j] = IF j < k THEN q[j] ELSE q[j + 1]
  /\ \A i \in 1 .. Len(q) : i # k => \E j \in 1 .. Len(r) : r[j] = q[i]
  /\ \A j \in 1 .. Len(r) : \E i \in 1 .. Len(q) : i # k /\ r[j] = q[i]

With(q, at, x, r) ==
  /\ Len(r) = Len(q) + 1
  /\ at \in 1 .. Len(r) /\ r[at] = x
  /\ \A j \in 1 .. Len(r) : r[j] = IF j < at THEN q[j]
                                   ELSE IF j = at THEN x ELSE q[j - 1]
  /\ \A i \in 1 .. Len(q) : r[IF i < at THEN i ELSE i + 1] = q[i]

(***************************************************************************)
(* Taking an entry off leaves the others, in their order.                  *)
(***************************************************************************)
LEMMA RemovedLemma ==
  ASSUME NEW q \in Seq(EventEntry), Sorted(q), NEW k \in 1 .. Len(q),
         NEW r, r = RemoveAt(q, k)
  PROVE  r \in Seq(EventEntry) /\ Sorted(r) /\ Without(q, k, r)
<1>1. /\ r \in Seq(EventEntry) /\ Len(r) = Len(q) - 1 /\ Len(q) \in Nat
      /\ \A j \in 1 .. Len(r) : r[j] = IF j < k THEN q[j] ELSE q[j + 1]
  <2>1. /\ r \in Seq(EventEntry) /\ Len(r) = Len(q) - 1
        /\ \A j \in 1 .. Len(q) - 1 :
             r[j] = IF j < k THEN q[j] ELSE q[j + 1]
    BY RemoveAtLemma
  <2> QED BY <2>1
<1>2. Sorted(r)
  <2> SUFFICES ASSUME NEW i \in 1 .. Len(r), NEW j \in 1 .. Len(r), i <= j
               PROVE  r[i].tick <= r[j].tick
    BY DEF Sorted
  <2>1. /\ i \in 1 .. Len(q) /\ i + 1 \in 1 .. Len(q)
        /\ j \in 1 .. Len(q) /\ j + 1 \in 1 .. Len(q)
    BY <1>1
  <2>2. /\ r[i] = IF i < k THEN q[i] ELSE q[i + 1]
        /\ r[j] = IF j < k THEN q[j] ELSE q[j + 1]
    BY <1>1
  <2> QED BY <2>1, <2>2 DEF Sorted
<1>3. ASSUME NEW i \in 1 .. Len(q), i # k
      PROVE  \E j \in 1 .. Len(r) : r[j] = q[i]
  <2>1. CASE i < k
    <3>1. i \in 1 .. Len(r) /\ r[i] = q[i]
      BY <1>1, <2>1
    <3> QED BY <3>1
  <2>2. CASE k < i
    <3>1. i - 1 \in 1 .. Len(r) /\ ~(i - 1 < k) /\ (i - 1) + 1 = i
      BY <1>1, <2>2
    <3>2. r[i - 1] = q[i]
      BY <1>1, <3>1
    <3> QED BY <3>1, <3>2
  <2> QED BY <1>3, <2>1, <2>2
<1>4. ASSUME NEW j \in 1 .. Len(r)
      PROVE  \E i \in 1 .. Len(q) : i # k /\ r[j] = q[i]
  <2>1. /\ j \in 1 .. Len(q) /\ j + 1 \in 1 .. Len(q)
        /\ r[j] = IF j < k THEN q[j] ELSE q[j + 1]
    BY <1>1
  <2>2. CASE j < k
    BY <2>1, <2>2
  <2>3. CASE ~(j < k)
    <3>1. j + 1 # k /\ r[j] = q[j + 1]
      BY <2>1, <2>3
    <3> QED BY <2>1, <3>1
  <2> QED BY <2>2, <2>3
<1> QED BY <1>1, <1>2, <1>3, <1>4 DEF Without

(***************************************************************************)
(* An entry is put in its place among those that are in order.             *)
(***************************************************************************)
LEMMA AddedLemma ==
  ASSUME NEW q \in Seq(EventEntry), Sorted(q), NEW e \in Int, NEW t \in Nat,
         NEW at, at = InsertPosition(q, t),
         NEW r, r = InsertAt(q, at, Entry(e, t))
  PROVE  r \in Seq(EventEntry) /\ Sorted(r) /\ With(q, at, Entry(e, t), r)
<1>1. /\ at \in 1 .. Len(q) + 1
      /\ \A i \in 1 .. Len(q) : i < at <=> q[i].tick <= t
  BY InsertPositionLemma
<1>2. Entry(e, t) \in EventEntry /\ Entry(e, t).tick = t
  BY DEF Entry, EventEntry
<1>3. /\ r \in Seq(EventEntry) /\ Len(r) = Len(q) + 1 /\ Len(q) \in Nat
      /\ \A j \in 1 .. Len(r) : r[j] = IF j < at THEN q[j]
                                       ELSE IF j = at THEN Entry(e, t)
                                       ELSE q[j - 1]
  <2>1. PICK x \in EventEntry : x = Entry(e, t)
    BY <1>2
  <2>2. r = InsertAt(q, at, x)
    BY <2>1
  <2>3. /\ r \in Seq(EventEntry) /\ Len(r) = Len(q) + 1
        /\ \A j \in 1 .. Len(q) + 1 : r[j] = IF j < at THEN q[j]
                                             ELSE IF j = at THEN x
                                             ELSE q[j - 1]
    BY ONLY q \in Seq(EventEntry), x \in EventEntry, <1>1, <2>2, InsertAtLemma, SMTT(30)
  <2> QED BY <2>1, <2>3
<1>4. at \in 1 .. Len(r) /\ r[at] = Entry(e, t)
  BY <1>1, <1>3
<1>5. \A i \in 1 .. Len(q) : r[IF i < at THEN i ELSE i + 1] = q[i]
  <2> SUFFICES ASSUME NEW i \in 1 .. Len(q)
               PROVE  r[IF i < at THEN i ELSE i + 1] = q[i]
    OBVIOUS
  <2>1. CASE i < at
    BY <1>3, <2>1
  <2>2. CASE ~(i < at)
    <3>1. i + 1 \in 1 .. Len(r) /\ ~(i + 1 < at) /\ i + 1 # at /\ (i + 1) - 1 = i
      BY <1>1, <1>3, <2>2
    <3>2. r[i + 1] = q[i]
      BY <1>3, <3>1
    <3> QED BY <2>2, <3>2
  <2> QED BY <2>1, <2>2
<1>6. Sorted(r)
  <2> SUFFICES ASSUME NEW i \in 1 .. Len(r), NEW j \in 1 .. Len(r), i <= j
               PROVE  r[i].tick <= r[j].tick
    BY DEF Sorted
  <2>0. \A m \in 1 .. Len(q) : q[m].tick \in Nat
    BY EntryTypes
  <2>1. CASE i = j
    <3>1. r[i].tick \in Nat
      BY <1>3, EntryTypes
    <3> QED BY <2>1, <3>1
  <2>2. CASE i < at /\ j < at
    <3>1. i \in 1 .. Len(q) /\ j \in 1 .. Len(q)
      BY <1>1, <1>3, <2>2
    <3> QED BY <1>3, <2>2, <3>1 DEF Sorted
  <2>3. CASE i < at /\ j = at
    <3>1. i \in 1 .. Len(q) /\ r[i] = q[i] /\ r[j].tick = t
      BY <1>1, <1>2, <1>3, <2>3
    <3> QED BY <1>1, <2>3, <3>1
  <2>4. CASE i < at /\ at < j
    <3>1. i \in 1 .. Len(q) /\ j - 1 \in 1 .. Len(q) /\ i <= j - 1
      BY <1>1, <1>3, <2>4
    <3>2. r[i] = q[i] /\ r[j] = q[j - 1]
      BY <1>1, <1>3, <2>4
    <3> QED BY <3>1, <3>2 DEF Sorted
  <2>5. CASE i = at /\ at < j
    <3>1. j - 1 \in 1 .. Len(q) /\ ~(j - 1 < at)
      BY <1>1, <1>3, <2>5
    <3>2. r[j] = q[j - 1] /\ r[i].tick = t
      BY <1>2, <1>3, <2>5
    <3> QED BY <1>1, <2>0, <3>1, <3>2
  <2>6. CASE at < i /\ at < j
    <3>1. i - 1 \in 1 .. Len(q) /\ j - 1 \in 1 .. Len(q) /\ i - 1 <= j - 1
      BY <1>1, <1>3, <2>6
    <3>2. r[i] = q[i - 1] /\ r[j] = q[j - 1]
      BY <1>1, <1>3, <2>6
    <3> QED BY <3>1, <3>2 DEF Sorted
  <2> QED BY <1>1, <1>3, <2>1, <2>2, <2>3, <2>4, <2>5, <2>6
<1> QED BY <1>3, <1>4, <1>5, <1>6 DEF With

(***************************************************************************)
(* No entry of q is before one of the same tick that was in p already,     *)
(* unless it was in p, too.                                                *)
(***************************************************************************)
Listed(p, x) == \E k \in 1 .. Len(p) : p[k] = x

NoneOvertaken(p, q) ==
  \A i, j \in 1 .. Len(q) :
    i < j /\ q[i].tick = q[j].tick /\ Listed(p, q[j]) => Listed(p, q[i])

(***************************************************************************)
(* Taking an entry off lets none be overtaken.                             *)
(***************************************************************************)
LEMMA RemovedOvertakesNone ==
  ASSUME NEW p, NEW q \in Seq(EventEntry), NoneOvertaken(p, q),
         NEW k \in 1 .. Len(q), NEW r, Without(q, k, r)
  PROVE  NoneOvertaken(p, r)
<1>1. /\ Len(r) = Len(q) - 1 /\ Len(q) \in Nat
      /\ \A j \in 1 .. Len(r) : r[j] = IF j < k THEN q[j] ELSE q[j + 1]
  BY EntryTypes DEF Without
<1> SUFFICES ASSUME NEW i \in 1 .. Len(r), NEW j \in 1 .. Len(r), i < j,
                    r[i].tick = r[j].tick, Listed(p, r[j])
             PROVE  Listed(p, r[i])
  BY DEF NoneOvertaken
<1>2. PICK m \in 1 .. Len(q) : m = IF i < k THEN i ELSE i + 1
  BY <1>1
<1>3. PICK n \in 1 .. Len(q) : n = IF j < k THEN j ELSE j + 1
  BY <1>1
<1>4. m < n /\ r[i] = q[m] /\ r[j] = q[n]
  BY <1>1, <1>2, <1>3
<1> QED BY <1>4 DEF NoneOvertaken

(***************************************************************************)
(* Nor does an entry that is put in its place, if it is new.               *)
(***************************************************************************)
LEMMA AddedOvertakesNone ==
  ASSUME NEW p, NEW q \in Seq(EventEntry), Sorted(q), NoneOvertaken(p, q),
         NEW e \in Int, NEW t \in Nat,
         Listed(p, Entry(e, t)) =>
           \A i \in 1 .. Len(q) : q[i].tick = t => Listed(p, q[i]),
         NEW at, at = InsertPosition(q, t),
         NEW r, r = InsertAt(q, at, Entry(e, t))
  PROVE  NoneOvertaken(p, r)
<1>1. /\ Len(r) = Len(q) + 1 /\ Len(q) \in Nat /\ at \in 1 .. Len(r)
      /\ \A j \in 1 .. Len(r) : r[j] = IF j < at THEN q[j]
                                       ELSE IF j = at THEN Entry(e, t)
                                       ELSE q[j - 1]
  <2>1. Len(q) \in Nat
    BY EntryTypes
  <2>2. /\ Len(r) = Len(q) + 1 /\ at \in 1 .. Len(r)
        /\ \A j \in 1 .. Len(r) : r[j] = IF j < at THEN q[j]
                                         ELSE IF j = at THEN Entry(e, t)
                                         ELSE q[j - 1]
    <3>1. With(q, at, Entry(e, t), r)
      BY AddedLemma
    <3> QED BY <3>1 DEF With
  <2> QED BY <2>1, <2>2
<1>2. \A i \in 1 .. Len(q) : i < at <=> q[i].tick <= t
  BY InsertPositionLemma
<1>3. Entry(e, t).tick = t /\ \A i \in 1 .. Len(q) : q[i].tick \in Nat
  BY EntryTypes DEF Entry
<1> SUFFICES ASSUME NEW i \in 1 .. Len(r), NEW j \in 1 .. Len(r), i < j,
                    r[i].tick = r[j].tick, Listed(p, r[j])
             PROVE  Listed(p, r[i])
  BY DEF NoneOvertaken
<1>4. CASE j = at
  <2>1. i \in 1 .. Len(q) /\ r[i] = q[i] /\ r[j] = Entry(e, t)
    BY <1>1, <1>4
  <2> QED BY <1>3, <2>1
<1>5. CASE i = at
  <2>1. j - 1 \in 1 .. Len(q) /\ r[j] = q[j - 1] /\ ~(j - 1 < at)
    BY <1>1, <1>5
  <2>2. r[i].tick = t
    BY <1>1, <1>3, <1>5
  <2>3. r[j].tick > t
    BY <1>2, <1>3, <2>1
  <2> QED BY <1>3, <2>1, <2>2, <2>3
<1>6. CASE i # at /\ j # at
  <2>1. PICK m \in 1 .. Len(q) : m = IF i < at THEN i ELSE i - 1
    BY <1>1, <1>6
  <2>2. PICK n \in 1 .. Len(q) : n = IF j < at THEN j ELSE j - 1
    BY <1>1, <1>6
  <2>3. m < n /\ r[i] = q[m] /\ r[j] = q[n]
    BY <1>1, <1>6, <2>1, <2>2
  <2> QED BY <2>3 DEF NoneOvertaken
<1> QED BY <1>4, <1>5, <1>6

(***************************************************************************)
(* Only the entry of e changes from q to r.                                *)
(***************************************************************************)
OthersKept(q, r, e) ==
  \A f \in Int, u \in Nat : f # e =>
    (ScheduledAt(r, f, u) <=> ScheduledAt(q, f, u))

(***************************************************************************)
(* An event has a place in the list exactly if it is scheduled for a tick, *)
(* and then for one only.                                                  *)
(***************************************************************************)
LEMMA PlacesLemma ==
  ASSUME NEW q, InOrder(q), NEW e \in Int
  PROVE  /\ Places(q, e) # {} <=> \E u \in Nat : ScheduledAt(q, e, u)
         /\ Places(q, e) # {} =>
              /\ Min(Places(q, e)) \in 1 .. Len(q)
              /\ q[Min(Places(q, e))].eid = e
              /\ \A i \in 1 .. Len(q) :
                   q[i].eid = e => i = Min(Places(q, e))
         /\ \A i \in 1 .. Len(q) :
              ScheduledAt(q, q[i].eid, q[i].tick)
         /\ \A u : ScheduledAt(q, e, u) <=>
              \E i \in 1 .. Len(q) : q[i].eid = e /\ q[i].tick = u
<1>1. q \in Seq(EventEntry)
  BY DEF InOrder
<1>2. Places(q, e) \subseteq 1 .. Len(q) /\ Places(q, e) \subseteq Nat
  BY <1>1, EntryTypes DEF Places
<1>3. Places(q, e) # {} <=> \E u \in Nat : ScheduledAt(q, e, u)
  BY <1>1, <1>2, EntryTypes DEF ScheduledAt
<1>4. ASSUME Places(q, e) # {}
      PROVE  /\ Min(Places(q, e)) \in 1 .. Len(q)
             /\ q[Min(Places(q, e))].eid = e
             /\ \A i \in 1 .. Len(q) : q[i].eid = e => i = Min(Places(q, e))
  <2>1. Min(Places(q, e)) \in Places(q, e)
    BY <1>2, <1>4, MinLemma
  <2>2. PICK m \in Places(q, e) : m = Min(Places(q, e))
    BY <2>1
  <2>3. m \in 1 .. Len(q) /\ q[m].eid = e
    BY <2>2 DEF Places
  <2> QED BY <2>2, <2>3 DEF InOrder, OncePerEvent
<1>5. \A i \in 1 .. Len(q) : ScheduledAt(q, q[i].eid, q[i].tick)
  BY DEF ScheduledAt, Places
<1>6. \A u : ScheduledAt(q, e, u) <=>
        \E i \in 1 .. Len(q) : q[i].eid = e /\ q[i].tick = u
  BY DEF ScheduledAt, Places
<1> QED BY <1>3, <1>4, <1>5, <1>6

(***************************************************************************)
(* insertEvent moves the event to its new tick, touches no other, keeps    *)
(* the list in order and lets no entry be overtaken.                       *)
(***************************************************************************)
LEMMA InsertEventLemma ==
  ASSUME NEW q, InOrder(q), NEW e \in Int, NEW t \in Nat,
         NEW r, r = insertEvent(q, e, t)
  PROVE  /\ InOrder(r)
         /\ OthersKept(q, r, e)
         /\ \A u : ScheduledAt(r, e, u) <=> u = t
         /\ \A now \in Nat : now <= t /\ NotBefore(q, now) => NotBefore(r, now)
         /\ \A p : /\ NoneOvertaken(p, q)
                   /\ Listed(p, Entry(e, t)) /\ ~ScheduledAt(q, e, t) =>
                        \A i \in 1 .. Len(q) : q[i].tick = t => Listed(p, q[i])
                   => NoneOvertaken(p, r)
<1>a. PICK at : at = InsertPosition(q, t)
  OBVIOUS
<1>b. PICK added : added = InsertAt(q, at, Entry(e, t))
  OBVIOUS
<1>c. PICK old : old = Min(Places(q, e))
  OBVIOUS
<1>d. PICK k : k = IF old < at THEN old ELSE old + 1
  OBVIOUS
<1>1. q \in Seq(EventEntry) /\ Sorted(q) /\ OncePerEvent(q) /\ Len(q) \in Nat
  BY EntryTypes DEF InOrder
<1>2. /\ added \in Seq(EventEntry) /\ Sorted(added) /\ Len(added) = Len(q) + 1
      /\ at \in 1 .. Len(added) /\ added[at] = Entry(e, t)
      /\ \A j \in 1 .. Len(added) : added[j] = IF j < at THEN q[j]
                                               ELSE IF j = at THEN Entry(e, t)
                                               ELSE q[j - 1]
      /\ \A i \in 1 .. Len(q) : added[IF i < at THEN i ELSE i + 1] = q[i]
  <2>1. added \in Seq(EventEntry) /\ Sorted(added)
        /\ With(q, at, Entry(e, t), added)
    BY <1>1, <1>a, <1>b, AddedLemma
  <2> QED BY <2>1 DEF With
<1>3. \A p : /\ NoneOvertaken(p, q)
             /\ Listed(p, Entry(e, t)) =>
                  \A i \in 1 .. Len(q) : q[i].tick = t => Listed(p, q[i])
             => NoneOvertaken(p, added)
  BY <1>1, <1>a, <1>b, AddedOvertakesNone
<1>4. Entry(e, t).eid = e /\ Entry(e, t).tick = t
  BY DEF Entry
<1>5. CASE Places(q, e) # {} /\ q[old].tick = t
  <2>1. r = q
    BY <1>5, <1>c DEF insertEvent
  <2>2. /\ old \in 1 .. Len(q) /\ q[old].eid = e
        /\ \A i \in 1 .. Len(q) : q[i].eid = e => i = old
        /\ \A u : ScheduledAt(q, e, u) <=>
              \E i \in 1 .. Len(q) : q[i].eid = e /\ q[i].tick = u
    BY <1>5, <1>c, PlacesLemma
  <2>3. \A u : ScheduledAt(r, e, u) <=> u = t
    BY <1>5, <2>1, <2>2
  <2> QED BY <2>1, <2>3 DEF OthersKept
<1>6. CASE ~(Places(q, e) # {} /\ q[old].tick = t)
  <2>0. ~ScheduledAt(q, e, t)
    BY <1>6, <1>c, PlacesLemma
  \* r holds the entries of the other events and the new one.
  <2>1. /\ r \in Seq(EventEntry) /\ Sorted(r) /\ OncePerEvent(r)
        /\ \E j \in 1 .. Len(r) : r[j] = Entry(e, t)
        /\ \A i \in 1 .. Len(q) : q[i].eid # e =>
             \E j \in 1 .. Len(r) : r[j] = q[i]
        /\ \A j \in 1 .. Len(r) : r[j] = Entry(e, t) \/
             \E i \in 1 .. Len(q) : q[i].eid # e /\ r[j] = q[i]
        /\ \A p : NoneOvertaken(p, added) => NoneOvertaken(p, r)
    <3>1. CASE Places(q, e) = {}
      <4>1. r = added
        BY <3>1, <1>a, <1>b DEF insertEvent
      <4>2. \A i \in 1 .. Len(q) : q[i].eid # e
        BY <3>1 DEF Places
      <4>3. OncePerEvent(added)
        <5> SUFFICES ASSUME NEW i \in 1 .. Len(added),
                            NEW j \in 1 .. Len(added),
                            added[i].eid = added[j].eid
                     PROVE  i = j
          BY DEF OncePerEvent
        <5>1. CASE i # at /\ j # at
          <6>1. PICK m \in 1 .. Len(q) : m = IF i < at THEN i ELSE i - 1
            BY <1>1, <1>2, <5>1
          <6>2. PICK n \in 1 .. Len(q) : n = IF j < at THEN j ELSE j - 1
            BY <1>1, <1>2, <5>1
          <6>3. added[i] = q[m] /\ added[j] = q[n]
            BY <1>2, <5>1, <6>1, <6>2
          <6>4. m = n
            BY <1>1, <6>3 DEF OncePerEvent
          <6> QED BY <1>2, <5>1, <6>1, <6>2, <6>4
        <5>2. CASE i = at /\ j # at
          <6>1. PICK n \in 1 .. Len(q) : n = IF j < at THEN j ELSE j - 1
            BY <1>1, <1>2, <5>2
          <6>2. added[j] = q[n]
            BY <1>2, <5>2, <6>1
          <6> QED BY <1>2, <1>4, <4>2, <5>2, <6>2
        <5>3. CASE i # at /\ j = at
          <6>1. PICK n \in 1 .. Len(q) : n = IF i < at THEN i ELSE i - 1
            BY <1>1, <1>2, <5>3
          <6>2. added[i] = q[n]
            BY <1>2, <5>3, <6>1
          <6> QED BY <1>2, <1>4, <4>2, <5>3, <6>2
        <5> QED BY <5>1, <5>2, <5>3
      <4>4. \A i \in 1 .. Len(q) : \E j \in 1 .. Len(added) : added[j] = q[i]
        <5> SUFFICES ASSUME NEW i \in 1 .. Len(q)
                     PROVE  \E j \in 1 .. Len(added) : added[j] = q[i]
          OBVIOUS
        <5>1. (IF i < at THEN i ELSE i + 1) \in 1 .. Len(added)
          BY <1>1, <1>2
        <5> QED BY <1>2, <5>1
      <4>5. ASSUME NEW j \in 1 .. Len(added)
            PROVE  added[j] = Entry(e, t) \/
                     \E i \in 1 .. Len(q) : q[i].eid # e /\ added[j] = q[i]
        <5>1. CASE j = at
          BY <1>2, <5>1
        <5>2. CASE j # at
          <6>1. PICK n \in 1 .. Len(q) : n = IF j < at THEN j ELSE j - 1
            BY <1>1, <1>2, <5>2
          <6>2. added[j] = q[n]
            BY <1>2, <5>2, <6>1
          <6> QED BY <4>2, <6>2
        <5> QED BY <5>1, <5>2
      <4>6. \E j \in 1 .. Len(r) : r[j] = Entry(e, t)
        BY <1>2, <4>1
      <4> QED BY ONLY <1>2, <4>1, <4>3, <4>4, <4>5, <4>6
    <3>2. CASE Places(q, e) # {}
      <4>1. r = RemoveAt(added, k)
        BY <1>6, <3>2, <1>a, <1>b, <1>c, <1>d DEF insertEvent
      <4>2. /\ old \in 1 .. Len(q) /\ q[old].eid = e
            /\ \A i \in 1 .. Len(q) : q[i].eid = e => i = old
        BY <3>2, <1>c, PlacesLemma
      <4>3. /\ k = IF old < at THEN old ELSE old + 1
            /\ k \in 1 .. Len(added) /\ added[k] = q[old] /\ k # at
        BY <1>d, <1>1, <1>2, <4>2
      \* The entries of added other than the old one.
      <4>4. ASSUME NEW i \in 1 .. Len(added), i # k, i # at
            PROVE  \E m \in 1 .. Len(q) :
                     /\ m = (IF i < at THEN i ELSE i - 1) /\ m # old
                     /\ added[i] = q[m] /\ q[m].eid # e
        <5>1. PICK m \in 1 .. Len(q) : m = IF i < at THEN i ELSE i - 1
          BY <1>1, <1>2, <4>4
        <5>2. added[i] = q[m] /\ m # old
          BY <1>1, <1>2, <4>2, <4>3, <4>4, <5>1
        <5> QED BY <4>2, <5>1, <5>2
      <4>5. \A i, j \in 1 .. Len(added) :
              i # k /\ j # k /\ added[i].eid = added[j].eid => i = j
        <5> SUFFICES ASSUME NEW i \in 1 .. Len(added),
                            NEW j \in 1 .. Len(added), i # k, j # k,
                            added[i].eid = added[j].eid
                     PROVE  i = j
          OBVIOUS
        <5>1. CASE i = at /\ j # at
          <6>1. added[j].eid # e /\ added[i].eid = e
            BY <1>2, <1>4, <4>4, <5>1
          <6> QED BY <6>1
        <5>2. CASE i # at /\ j = at
          <6>1. added[i].eid # e /\ added[j].eid = e
            BY <1>2, <1>4, <4>4, <5>2
          <6> QED BY <6>1
        <5>3. CASE i # at /\ j # at
          <6>1. PICK m \in 1 .. Len(q) : /\ m = IF i < at THEN i ELSE i - 1
                                         /\ added[i] = q[m]
            BY <4>4, <5>3
          <6>2. PICK n \in 1 .. Len(q) : /\ n = IF j < at THEN j ELSE j - 1
                                         /\ added[j] = q[n]
            BY <4>4, <5>3
          <6>3. m = n
            BY <1>1, <6>1, <6>2 DEF OncePerEvent
          <6> QED BY <1>2, <5>3, <6>1, <6>2, <6>3
        <5> QED BY <5>1, <5>2, <5>3
      <4>6. /\ r \in Seq(EventEntry) /\ Sorted(r) /\ Len(r) = Len(added) - 1
            /\ \A j \in 1 .. Len(r) : r[j] = IF j < k THEN added[j]
                                             ELSE added[j + 1]
            /\ \A i \in 1 .. Len(added) : i # k =>
                 \E j \in 1 .. Len(r) : r[j] = added[i]
            /\ \A j \in 1 .. Len(r) :
                 \E i \in 1 .. Len(added) : i # k /\ r[j] = added[i]
        <5>1. added \in Seq(EventEntry) /\ Sorted(added) /\ k \in 1 .. Len(added)
          BY <1>2, <4>3
        <5>2. r \in Seq(EventEntry) /\ Sorted(r) /\ Without(added, k, r)
          BY <5>1, <4>1, RemovedLemma
        <5> QED BY <5>2 DEF Without
      <4>7. OncePerEvent(r)
        <5> SUFFICES ASSUME NEW i \in 1 .. Len(r), NEW j \in 1 .. Len(r),
                            r[i].eid = r[j].eid
                     PROVE  i = j
          BY DEF OncePerEvent
        <5>0. k \in Int /\ Len(r) + 1 = Len(added) /\ Len(r) \in Nat
          BY <1>1, <1>2, <4>3, <4>6, EntryTypes
        <5>1. PICK m \in 1 .. Len(added) : m = IF i < k THEN i ELSE i + 1
          BY <5>0
        <5>2. PICK n \in 1 .. Len(added) : n = IF j < k THEN j ELSE j + 1
          BY <5>0
        <5>3. m # k /\ n # k /\ added[m] = r[i] /\ added[n] = r[j]
          <6>1. r[i] = (IF i < k THEN added[i] ELSE added[i + 1])
                /\ r[j] = (IF j < k THEN added[j] ELSE added[j + 1])
            BY <4>6
          <6> QED BY <5>0, <5>1, <5>2, <6>1
        <5>4. m = n
          BY <4>5, <5>3
        <5> QED BY <4>3, <5>1, <5>2, <5>4
      <4>8. \E j \in 1 .. Len(r) : r[j] = Entry(e, t)
        BY <1>2, <4>3, <4>6
      <4>9. ASSUME NEW i \in 1 .. Len(q), q[i].eid # e
            PROVE  \E j \in 1 .. Len(r) : r[j] = q[i]
        <5>1. PICK m \in 1 .. Len(added) : m = IF i < at THEN i ELSE i + 1
          BY <1>1, <1>2
        <5>2. added[m] = q[i] /\ m # k
          BY <1>2, <4>2, <4>3, <4>9, <5>1
        <5> QED BY <4>6, <5>2
      <4>10. ASSUME NEW j \in 1 .. Len(r)
             PROVE  r[j] = Entry(e, t) \/
                      \E i \in 1 .. Len(q) : q[i].eid # e /\ r[j] = q[i]
        <5>1. PICK i \in 1 .. Len(added) : i # k /\ r[j] = added[i]
          BY <4>6
        <5>2. CASE i = at
          BY <1>2, <5>1, <5>2
        <5>3. CASE i # at
          BY <4>4, <5>1, <5>3
        <5> QED BY <5>2, <5>3
      <4>11. \A p : NoneOvertaken(p, added) => NoneOvertaken(p, r)
        <5>1. added \in Seq(EventEntry) /\ Sorted(added) /\ k \in 1 .. Len(added)
          BY <1>2, <4>3
        <5>2. Without(added, k, r)
          BY <5>1, <4>1, RemovedLemma
        <5> QED BY <5>1, <5>2, RemovedOvertakesNone
      <4> QED BY <4>6, <4>7, <4>8, <4>9, <4>10, <4>11
    <3> QED BY <3>1, <3>2
  <2>2. InOrder(r)
    BY <2>1 DEF InOrder
  <2>3. \A u : ScheduledAt(r, e, u) <=> u = t
    <3>1. \A u : ScheduledAt(r, e, u) <=>
            \E j \in 1 .. Len(r) : r[j].eid = e /\ r[j].tick = u
      BY <2>2, PlacesLemma, SMTT(30)
    <3> QED BY <1>4, <2>1, <3>1, SMTT(30)
  <2>4. OthersKept(q, r, e)
    <3> SUFFICES ASSUME NEW f \in Int, NEW u \in Nat, f # e
                 PROVE  ScheduledAt(r, f, u) <=> ScheduledAt(q, f, u)
      BY DEF OthersKept
    <3>1. ScheduledAt(r, f, u) <=>
            \E j \in 1 .. Len(r) : r[j].eid = f /\ r[j].tick = u
      BY ONLY <2>2, f \in Int, PlacesLemma
    <3>2. ScheduledAt(q, f, u) <=>
            \E j \in 1 .. Len(q) : q[j].eid = f /\ q[j].tick = u
      BY PlacesLemma
    <3>3. ASSUME ScheduledAt(r, f, u) PROVE ScheduledAt(q, f, u)
      <4>1. PICK j \in 1 .. Len(r) : r[j].eid = f /\ r[j].tick = u
        BY <3>1, <3>3
      <4>2. PICK i \in 1 .. Len(q) : r[j] = q[i]
        BY <1>4, <2>1, <4>1
      <4> QED BY <3>2, <4>1, <4>2
    <3>4. ASSUME ScheduledAt(q, f, u) PROVE ScheduledAt(r, f, u)
      <4>1. PICK i \in 1 .. Len(q) : q[i].eid = f /\ q[i].tick = u
        BY <3>2, <3>4
      <4>2. PICK j \in 1 .. Len(r) : r[j] = q[i]
        BY <2>1, <4>1
      <4> QED BY <3>1, <4>1, <4>2
    <3> QED BY <3>3, <3>4
  <2>5. ASSUME NEW now \in Nat, now <= t, NotBefore(q, now)
        PROVE  NotBefore(r, now)
    BY <1>4, <2>1, <2>5 DEF NotBefore
  <2>6. \A p : /\ NoneOvertaken(p, q)
               /\ Listed(p, Entry(e, t)) /\ ~ScheduledAt(q, e, t) =>
                    \A i \in 1 .. Len(q) : q[i].tick = t => Listed(p, q[i])
               => NoneOvertaken(p, r)
    BY <1>3, <2>0, <2>1
  <2> QED BY <2>2, <2>3, <2>4, <2>5, <2>6
<1> QED BY <1>5, <1>6

(***************************************************************************)
(* What is left of a list in order when an entry goes.                     *)
(***************************************************************************)
LEMMA WithoutLemma ==
  ASSUME NEW q, InOrder(q), NEW k \in 1 .. Len(q),
         NEW r \in Seq(EventEntry), Without(q, k, r)
  PROVE  /\ InOrder(r)
         /\ OthersKept(q, r, q[k].eid)
         /\ \A u : ~ScheduledAt(r, q[k].eid, u)
         /\ \A now : NotBefore(q, now) => NotBefore(r, now)
         /\ \A p : NoneOvertaken(p, q) => NoneOvertaken(p, r)
<1>1. q \in Seq(EventEntry) /\ Sorted(q) /\ OncePerEvent(q) /\ Len(q) \in Nat
  BY EntryTypes DEF InOrder
<1>2. /\ Len(r) = Len(q) - 1
      /\ \A j \in 1 .. Len(r) : r[j] = IF j < k THEN q[j] ELSE q[j + 1]
      /\ \A i \in 1 .. Len(q) : i # k => \E j \in 1 .. Len(r) : r[j] = q[i]
      /\ \A j \in 1 .. Len(r) : \E i \in 1 .. Len(q) : i # k /\ r[j] = q[i]
  BY DEF Without
<1>3. ASSUME NEW i \in 1 .. Len(r), NEW j \in 1 .. Len(r)
      PROVE  /\ i <= j => r[i].tick <= r[j].tick
             /\ r[i].eid = r[j].eid => i = j
  <2>1. PICK m \in 1 .. Len(q) : m = IF i < k THEN i ELSE i + 1
    BY <1>1, <1>2
  <2>2. PICK n \in 1 .. Len(q) : n = IF j < k THEN j ELSE j + 1
    BY <1>1, <1>2
  <2>3. r[i] = q[m] /\ r[j] = q[n] /\ (i <= j => m <= n) /\ (m = n => i = j)
    <3>1. r[i] = (IF i < k THEN q[i] ELSE q[i + 1])
          /\ r[j] = (IF j < k THEN q[j] ELSE q[j + 1])
      BY <1>2
    <3>2. k \in Int /\ i \in Int /\ j \in Int
      BY <1>1, <1>2
    <3> QED BY <2>1, <2>2, <3>1, <3>2
  <2> QED BY <1>1, <2>3 DEF Sorted, OncePerEvent
<1>4. InOrder(r)
  BY <1>3 DEF InOrder, Sorted, OncePerEvent
<1>5. \A f \in Int : \A u : ScheduledAt(r, f, u) <=>
        \E j \in 1 .. Len(r) : r[j].eid = f /\ r[j].tick = u
  BY <1>4, PlacesLemma
<1>6. \A f \in Int : \A u : ScheduledAt(q, f, u) <=>
        \E j \in 1 .. Len(q) : q[j].eid = f /\ q[j].tick = u
  BY PlacesLemma
<1>7. OthersKept(q, r, q[k].eid)
  <2> SUFFICES ASSUME NEW f \in Int, NEW u \in Nat, f # q[k].eid
               PROVE  ScheduledAt(r, f, u) <=> ScheduledAt(q, f, u)
    BY DEF OthersKept
  <2>1. ASSUME ScheduledAt(r, f, u) PROVE ScheduledAt(q, f, u)
    <3>1. PICK j \in 1 .. Len(r) : r[j].eid = f /\ r[j].tick = u
      BY <1>5, <2>1
    <3>2. PICK i \in 1 .. Len(q) : r[j] = q[i]
      BY <1>2
    <3> QED BY <1>6, <3>1, <3>2
  <2>2. ASSUME ScheduledAt(q, f, u) PROVE ScheduledAt(r, f, u)
    <3>1. PICK i \in 1 .. Len(q) : q[i].eid = f /\ q[i].tick = u
      BY <1>6, <2>2
    <3>2. PICK j \in 1 .. Len(r) : r[j] = q[i]
      BY <1>2, <3>1
    <3> QED BY <1>5, <3>1, <3>2
  <2> QED BY <2>1, <2>2
<1>8. ASSUME NEW u PROVE ~ScheduledAt(r, q[k].eid, u)
  <2>1. q[k].eid \in Int
    BY <1>1, EntryTypes
  <2>2. \A j \in 1 .. Len(r) : r[j].eid # q[k].eid
    BY <1>1, <1>2 DEF OncePerEvent
  <2> QED BY <1>5, <2>1, <2>2
<1>9. \A now : NotBefore(q, now) => NotBefore(r, now)
  BY <1>2 DEF NotBefore
<1>10. \A p : NoneOvertaken(p, q) => NoneOvertaken(p, r)
  BY <1>1, RemovedOvertakesNone
<1> QED BY <1>4, <1>7, <1>8, <1>9, <1>10

(***************************************************************************)
(* removeEvent takes out all there is of an event and keeps the rest in    *)
(* order.                                                                  *)
(***************************************************************************)
LEMMA RemoveEventLemma ==
  ASSUME NEW q, InOrder(q), NEW e \in Int, NEW r, r = removeEvent(q, e)
  PROVE  /\ InOrder(r)
         /\ OthersKept(q, r, e)
         /\ \A u : ~ScheduledAt(r, e, u)
         /\ \A now : NotBefore(q, now) => NotBefore(r, now)
         /\ \A p : NoneOvertaken(p, q) => NoneOvertaken(p, r)
<1>1. CASE Places(q, e) = {}
  <2>1. r = q
    BY <1>1 DEF removeEvent
  <2>2. \A u : ~ScheduledAt(q, e, u)
    BY <1>1 DEF ScheduledAt
  <2> QED BY <2>1, <2>2 DEF OthersKept
<1>2. CASE Places(q, e) # {}
  <2>1. PICK k \in 1 .. Len(q) : k = Min(Places(q, e)) /\ q[k].eid = e
    BY <1>2, PlacesLemma
  <2>2. r = RemoveAt(q, k)
    BY <1>2, <2>1 DEF removeEvent
  <2>3. r \in Seq(EventEntry) /\ Without(q, k, r)
    BY <2>2, RemovedLemma DEF InOrder
  <2> QED BY <2>1, <2>3, WithoutLemma
<1> QED BY <1>1, <1>2

(***************************************************************************)
(* doNextEvent takes the front, and nothing is due before it.              *)
(***************************************************************************)
LEMMA NextEventLemma ==
  ASSUME NEW q, InOrder(q), q # <<>>, NEW h, h = Head(q), NEW r, r = Tail(q)
  PROVE  /\ h \in EventEntry /\ h.tick \in Nat /\ h.eid \in Int
         /\ ScheduledAt(q, h.eid, h.tick)
         /\ \A now \in Nat : NotBefore(q, now) => now <= h.tick
         /\ InOrder(r) /\ NotBefore(r, h.tick)
         /\ OthersKept(q, r, h.eid)
         /\ \A u : ~ScheduledAt(r, h.eid, u)
         /\ \A p : NoneOvertaken(p, q) => NoneOvertaken(p, r)
         /\ \A i \in 1 .. Len(r) : Listed(q, r[i])
         /\ Listed(q, h)
<1>1. q \in Seq(EventEntry) /\ Sorted(q) /\ Len(q) \in Nat
  BY EntryTypes DEF InOrder
<1>2. 1 \in 1 .. Len(q) /\ h = q[1]
  BY <1>1
<1>3. /\ r \in Seq(EventEntry) /\ Len(r) = Len(q) - 1
      /\ \A j \in 1 .. Len(r) : r[j] = q[j + 1]
  BY <1>1
<1>4. Without(q, 1, r)
  <2>1. ASSUME NEW i \in 1 .. Len(q), i # 1
        PROVE  \E j \in 1 .. Len(r) : r[j] = q[i]
    <3>1. i - 1 \in 1 .. Len(r) /\ (i - 1) + 1 = i
      BY <1>1, <1>3, <2>1
    <3> QED BY <1>3, <3>1
  <2>2. ASSUME NEW j \in 1 .. Len(r)
        PROVE  \E i \in 1 .. Len(q) : i # 1 /\ r[j] = q[i]
    <3>1. j + 1 \in 1 .. Len(q) /\ j + 1 # 1
      BY <1>1, <1>3
    <3> QED BY <1>3, <3>1
  <2>3. \A j \in 1 .. Len(r) : r[j] = IF j < 1 THEN q[j] ELSE q[j + 1]
    BY <1>1, <1>3
  <2> QED BY <1>3, <2>1, <2>2, <2>3 DEF Without
<1>5. /\ InOrder(r) /\ OthersKept(q, r, q[1].eid)
      /\ \A u : ~ScheduledAt(r, q[1].eid, u)
      /\ \A p : NoneOvertaken(p, q) => NoneOvertaken(p, r)
  BY <1>2, <1>3, <1>4, WithoutLemma
<1>6. NotBefore(r, h.tick)
  <2> SUFFICES ASSUME NEW j \in 1 .. Len(r) PROVE h.tick <= r[j].tick
    BY DEF NotBefore
  <2>1. j + 1 \in 1 .. Len(q) /\ 1 <= j + 1
    BY <1>1, <1>3
  <2>2. q[1].tick <= q[j + 1].tick
    BY <1>1, <1>2, <2>1 DEF Sorted
  <2>3. r[j] = q[j + 1]
    BY <1>3
  <2> QED BY <1>2, <2>2, <2>3
<1>7. h \in EventEntry /\ h.tick \in Nat /\ h.eid \in Int
  BY <1>1, <1>2, EntryTypes
<1>8. ScheduledAt(q, h.eid, h.tick)
  BY <1>2 DEF ScheduledAt, Places
<1>9. \A now \in Nat : NotBefore(q, now) => now <= h.tick
  BY <1>2 DEF NotBefore
<1>10. (\A i \in 1 .. Len(r) : Listed(q, r[i])) /\ Listed(q, h)
  BY <1>2, <1>4 DEF Listed, Without
<1> QED BY <1>2, <1>5, <1>6, <1>7, <1>8, <1>9, <1>10

(***************************************************************************)
(* In the middle of a step that started with the list p at tick now and    *)
(* has q now: entries of this tick were there before, and the event e is   *)
(* where it was unless it is the one that fired.  Then e can be scheduled  *)
(* for any tick.                                                           *)
(***************************************************************************)
Fresh(p, q, now) == \A i \in 1 .. Len(q) : q[i].tick = now => Listed(p, q[i])

MayMove(p, q, now, e) ==
  /\ NoneOvertaken(p, q) /\ Fresh(p, q, now)
  /\ \A u \in Nat : Listed(p, Entry(e, u)) => ScheduledAt(q, e, u) \/ u = now

(***************************************************************************)
(* Moving an event overtakes none, if it was not listed for that tick      *)
(* before.                                                                 *)
(***************************************************************************)
LEMMA MoveOvertakesNone ==
  ASSUME NEW p, NEW q, InOrder(q), NEW e \in Int, NEW t \in Nat,
         NEW now \in Nat, MayMove(p, q, now, e)
  PROVE  NoneOvertaken(p, insertEvent(q, e, t))
<1>1. Listed(p, Entry(e, t)) /\ ~ScheduledAt(q, e, t) =>
        \A i \in 1 .. Len(q) : q[i].tick = t => Listed(p, q[i])
  BY DEF MayMove, Fresh
<1> QED BY <1>1, InsertEventLemma DEF MayMove

(***************************************************************************)
(* Scheduling an event for a later tick leaves those of this tick.         *)
(***************************************************************************)
LEMMA LaterKeepsFresh ==
  ASSUME NEW p, NEW q, InOrder(q), NEW e \in Int, NEW t \in Nat,
         NEW now \in Nat, now # t, Fresh(p, q, now)
  PROVE  Fresh(p, insertEvent(q, e, t), now)
<1>1. PICK r : r = insertEvent(q, e, t)
  OBVIOUS
<1>2. /\ InOrder(r) /\ OthersKept(q, r, e)
      /\ \A u : ScheduledAt(r, e, u) <=> u = t
  BY <1>1, InsertEventLemma
<1>3. q \in Seq(EventEntry) /\ r \in Seq(EventEntry)
  BY <1>2 DEF InOrder
<1>4. ASSUME NEW j \in 1 .. Len(r), r[j].tick = now PROVE Listed(p, r[j])
  <2>1. r[j] \in EventEntry /\ r[j].eid \in Int
    BY <1>3, EntryTypes
  <2>2. ScheduledAt(r, r[j].eid, now)
    BY <1>2, <1>4, PlacesLemma
  <2>3. ScheduledAt(q, r[j].eid, now)
    BY <1>2, <2>1, <2>2 DEF OthersKept
  <2>4. PICK i \in 1 .. Len(q) : q[i].eid = r[j].eid /\ q[i].tick = now
    BY <2>1, <2>3, PlacesLemma, SMTT(30)
  <2>5. q[i] \in EventEntry
    BY <1>3, EntryTypes
  <2>6. q[i] = r[j]
    BY <1>4, <2>1, <2>4, <2>5 DEF EventEntry
  <2> QED BY <2>4, <2>6 DEF Fresh
<1> QED BY <1>1, <1>4 DEF Fresh

(***************************************************************************)
(* A list lets none of its own entries be overtaken, nor does the rest of  *)
(* it when the front is taken.                                             *)
(***************************************************************************)
LEMMA OwnEntries ==
  ASSUME NEW q, InOrder(q)
  PROVE  /\ NoneOvertaken(q, q)
         /\ \A now : Fresh(q, q, now)
         /\ \A e \in Int, now \in Nat : MayMove(q, q, now, e)
<1>1. \A i \in 1 .. Len(q) : Listed(q, q[i])
  BY DEF Listed
<1>2. ASSUME NEW e \in Int, NEW u \in Nat, Listed(q, Entry(e, u))
      PROVE  ScheduledAt(q, e, u)
  BY <1>2 DEF Listed, Entry, ScheduledAt, Places
<1> QED BY <1>1, <1>2 DEF NoneOvertaken, Fresh, MayMove

(***************************************************************************)
(* Taking the first event out overtakes none.                              *)
(***************************************************************************)
LEMMA FrontTaken ==
  ASSUME NEW q, InOrder(q), q # <<>>
  PROVE  /\ NoneOvertaken(q, Tail(q))
         /\ \A now : Fresh(q, Tail(q), now)
         /\ \A e \in Int : MayMove(q, Tail(q), Head(q).tick, e)
<1>1. PICK h : h = Head(q)
  OBVIOUS
<1>2. PICK r : r = Tail(q)
  OBVIOUS
<1>3. /\ h \in EventEntry /\ OthersKept(q, r, h.eid) /\ h.eid \in Int
      /\ NoneOvertaken(q, q) => NoneOvertaken(q, r)
      /\ \A i \in 1 .. Len(r) : Listed(q, r[i])
      /\ ScheduledAt(q, h.eid, h.tick)
  BY <1>1, <1>2, NextEventLemma
<1>4. NoneOvertaken(q, r) /\ \A now : Fresh(q, r, now)
  BY <1>3, OwnEntries DEF Fresh
<1>5. ASSUME NEW e \in Int, NEW u \in Nat, Listed(q, Entry(e, u))
      PROVE  ScheduledAt(r, e, u) \/ u = h.tick
  <2>1. ScheduledAt(q, e, u)
    BY <1>5 DEF Listed, Entry, ScheduledAt, Places
  <2>2. CASE e # h.eid
    BY <1>3, <2>1, <2>2 DEF OthersKept
  <2>3. CASE e = h.eid
    <3>1. PICK i \in 1 .. Len(q) : q[i].eid = e /\ q[i].tick = u
      BY <2>1, PlacesLemma
    <3>2. PICK j \in 1 .. Len(q) : q[j].eid = e /\ q[j].tick = h.tick
      <4>1. ScheduledAt(q, e, h.tick)
        BY <1>3, <2>3
      <4> QED BY <4>1, PlacesLemma
    <3> QED BY <3>1, <3>2 DEF InOrder, OncePerEvent
  <2> QED BY <2>2, <2>3
<1> QED BY <1>1, <1>2, <1>4, <1>5 DEF MayMove

-----------------------------------------------------------------------------
(***************************************************************************)
(* The HIL between events, with the event list q, the completion queue cq  *)
(* and lastScheduled last at tick now: the completion event is scheduled   *)
(* exactly if requests wait, for the first of them, and last is that tick. *)
(* When none waits, last is in the past, so that no request still to come  *)
(* can be finished at that tick.                                           *)
(***************************************************************************)
Armed(q, cq, last, now) ==
  /\ cq = {} => last <= now /\ \A u \in Nat : ~ScheduledAt(q, Completion, u)
  /\ cq # {} => /\ \E x \in cq : x.finishedAt = last
                /\ \A x \in cq : last <= x.finishedAt
                /\ \A u \in Nat : ScheduledAt(q, Completion, u) <=> u = last

(***************************************************************************)
(* The HIL within completion(): the event has fired at the tick it was     *)
(* scheduled for, and no request should have been completed before.        *)
(***************************************************************************)
Completing(q, cq, last, now) ==
  /\ last = now /\ \A x \in cq : now <= x.finishedAt
  /\ \A u \in Nat : ~ScheduledAt(q, Completion, u)

Ticks(cq) == \A x \in cq : x.finishedAt \in Nat

(***************************************************************************)
(* Some request is finished first, and updateCompletion sees its tick.     *)
(***************************************************************************)
LEMMA TopLemma ==
  ASSUME NEW cq, Ticks(cq), cq # {}
  PROVE  /\ (CHOOSE x \in Tops(cq) : TRUE) \in Tops(cq)
         /\ (CHOOSE x \in Tops(cq) : TRUE) \in cq
         /\ (CHOOSE x \in Tops(cq) : TRUE).finishedAt \in Nat
         /\ \A y \in cq : (CHOOSE x \in Tops(cq) : TRUE).finishedAt
                            <= y.finishedAt
<1> DEFINE T == {x.finishedAt : x \in cq}
<1>1. T \subseteq Nat /\ T # {}
  BY DEF Ticks
<1>2. Min(T) \in T /\ \A y \in T : Min(T) <= y
  BY <1>1, MinLemma
<1>3. PICK x \in cq : x.finishedAt = Min(T)
  BY <1>2
<1>4. \A y \in cq : x.finishedAt <= y.finishedAt
  BY <1>2, <1>3
<1>5. Tops(cq) # {}
  BY <1>3, <1>4 DEF Tops
<1>6. (CHOOSE z \in Tops(cq) : TRUE) \in Tops(cq)
  BY <1>5
<1> QED BY <1>6 DEF Tops, Ticks

(***************************************************************************)
(* updateCompletion, when what is known of the completion queue is that it *)
(* is armed for some of it, or that the event has fired and all that wait  *)
(* are finished later: comparing with lastScheduled loses no wake-up.      *)
(***************************************************************************)
LEMMA UpdateLemma ==
  ASSUME NEW q, InOrder(q), NEW now \in Nat, NotBefore(q, now),
         lastScheduled \in Nat, NEW cq, Ticks(cq),
         \/ \E old \in SUBSET cq : /\ Armed(q, old, lastScheduled, now)
                                   /\ \A x \in cq \ old : now < x.finishedAt
         \/ /\ Completing(q, cq, lastScheduled, now)
            /\ \A x \in cq : now < x.finishedAt,
         NEW u, u = updateCompletion(q, cq)
  PROVE  /\ InOrder(u[1]) /\ NotBefore(u[1], now) /\ u[2] \in Nat
         /\ OthersKept(q, u[1], Completion)
         /\ Armed(u[1], cq, u[2], now)
         /\ \A p : MayMove(p, q, now, Completion)
                   => NoneOvertaken(p, u[1]) /\ Fresh(p, u[1], now)
<1>1. CASE cq = {}
  <2>1. u[1] = q /\ u[2] = lastScheduled
    BY <1>1 DEF updateCompletion
  <2>2. Armed(q, cq, lastScheduled, now)
    BY <1>1 DEF Armed, Completing
  <2> QED BY <2>1, <2>2 DEF OthersKept, MayMove
<1>2. CASE cq # {}
  <2>1. PICK t \in Nat : /\ t = (CHOOSE x \in Tops(cq) : TRUE).finishedAt
                         /\ \E x \in cq : x.finishedAt = t
                         /\ \A x \in cq : t <= x.finishedAt
    BY <1>2, TopLemma
  <2>2. CASE t = lastScheduled
    <3>1. u[1] = q /\ u[2] = lastScheduled
      BY <1>2, <2>1, <2>2 DEF updateCompletion
    <3>2. Armed(q, cq, lastScheduled, now)
      <4>1. ~(/\ Completing(q, cq, lastScheduled, now)
              /\ \A x \in cq : now < x.finishedAt)
        BY <2>1, <2>2 DEF Completing
      <4>2. PICK old \in SUBSET cq :
              /\ Armed(q, old, lastScheduled, now)
              /\ \A x \in cq \ old : now < x.finishedAt
        BY <4>1
      <4>3. old # {}
        BY <2>1, <2>2, <4>2 DEF Armed
      <4> QED BY <1>2, <2>1, <2>2, <4>2, <4>3 DEF Armed
    <3> QED BY <3>1, <3>2 DEF OthersKept, MayMove
  <2>3. CASE t # lastScheduled
    <3>1. u[1] = insertEvent(q, Completion, t) /\ u[2] = t
      BY <1>2, <2>1, <2>3 DEF updateCompletion
    <3>2. now < t
      <4>1. CASE Completing(q, cq, lastScheduled, now)
                 /\ \A x \in cq : now < x.finishedAt
        BY <2>1, <4>1
      <4>2. CASE \E old \in SUBSET cq : /\ Armed(q, old, lastScheduled, now)
                                /\ \A x \in cq \ old : now < x.finishedAt
        <5>1. PICK old \in SUBSET cq :
                /\ Armed(q, old, lastScheduled, now)
                /\ \A x \in cq \ old : now < x.finishedAt
          BY <4>2
        <5>2. PICK x \in cq : x.finishedAt = t
          BY <2>1
        <5>3. x \notin old
          BY <2>1, <2>3, <5>1, <5>2 DEF Armed
        <5> QED BY <5>1, <5>2, <5>3
      <4> QED BY <4>1, <4>2
    <3>3. /\ InOrder(u[1]) /\ NotBefore(u[1], now)
          /\ OthersKept(q, u[1], Completion)
          /\ \A v : ScheduledAt(u[1], Completion, v) <=> v = t
      BY <3>1, <3>2, InsertEventLemma DEF Completion
    <3>4. Armed(u[1], cq, t, now)
      BY <1>2, <2>1, <3>3 DEF Armed
    <3>5. ASSUME NEW p, MayMove(p, q, now, Completion)
          PROVE  NoneOvertaken(p, u[1]) /\ Fresh(p, u[1], now)
      <4>1. NoneOvertaken(p, insertEvent(q, Completion, t))
        BY <3>5, MoveOvertakesNone DEF Completion
      <4>2. Fresh(p, insertEvent(q, Completion, t), now)
        BY <3>2, <3>5, LaterKeepsFresh DEF Completion, MayMove
      <4> QED BY <3>1, <4>1, <4>2
    <3> QED BY <3>1, <3>3, <3>4, <3>5
  <2> QED BY <2>2, <2>3
<1> QED BY <1>1, <1>2

(***************************************************************************)
(* The engine and the cores: a core has jobs exactly while it is busy, and *)
(* exactly then its event is scheduled.                                    *)
(***************************************************************************)
CoreTypes(j, b) ==
  j \in [Core -> Seq(Requests \cup Nat)] /\ b \in [Core -> BOOLEAN]

CoresAwake(q, j, b) ==
  \A c \in Core : /\ b[c] <=> j[c] # <<>>
                  /\ b[c] <=> \E u \in Nat : ScheduledAt(q, c, u)

Device0(q, j, b, cq, last, now) ==
  /\ InOrder(q) /\ NotBefore(q, now)
  /\ CoreTypes(j, b) /\ CoresAwake(q, j, b)
  /\ Ticks(cq) /\ last \in Nat

(***************************************************************************)
(* A change of the list that leaves the device's events and the begin of   *)
(* the generator alone.                                                    *)
(***************************************************************************)
SameForDevice(q, r) ==
  \A f \in Nat \cup {BeginEvent}, u \in Nat :
    ScheduledAt(r, f, u) <=> ScheduledAt(q, f, u)

(***************************************************************************)
(* Cores and the completion event see only their own events.               *)
(***************************************************************************)
LEMMA SameForDeviceKeeps ==
  ASSUME NEW q, NEW r, SameForDevice(q, r), numCores \in Nat,
         NEW j, NEW b, NEW cq, NEW last \in Nat, NEW now
  PROVE  /\ CoresAwake(q, j, b) => CoresAwake(r, j, b)
         /\ Armed(q, cq, last, now) => Armed(r, cq, last, now)
         /\ Completing(q, cq, last, now) => Completing(r, cq, last, now)
<1>1. Core \subseteq Nat /\ Completion \in Nat
  BY DEF Core, Completion
<1> QED BY <1>1 DEF SameForDevice, CoresAwake, Armed, Completing

(***************************************************************************)
(* The handler of a request runs between events, or in a callback while a  *)
(* request that is due is still on the completion queue.                   *)
(***************************************************************************)
LEMMA ExecuteLemma ==
  ASSUME NEW q, InOrder(q), NEW now \in Nat, NotBefore(q, now),
         lastScheduled \in Nat, Ticks(completionQueue),
         Armed(q, completionQueue, lastScheduled, now),
         NEW r, NEW e \in Execute(r, q, now)
  PROVE  /\ InOrder(e.events) /\ NotBefore(e.events, now)
         /\ OthersKept(q, e.events, Completion)
         /\ Ticks(e.completions) /\ e.last \in Nat
         /\ Armed(e.events, e.completions, e.last, now)
         /\ completionQueue \subseteq e.completions
         /\ \A p : MayMove(p, q, now, Completion)
                   => NoneOvertaken(p, e.events) /\ Fresh(p, e.events, now)
<1>1. PICK d \in DeviceLatency :
        e = [completions |-> completionQueue \cup {Finished(r, now + d)},
             events |-> updateCompletion(q, completionQueue \cup
                                            {Finished(r, now + d)})[1],
             last |-> updateCompletion(q, completionQueue \cup
                                          {Finished(r, now + d)})[2]]
  BY DEF Execute
<1>2. d \in Nat \ {0}
  BY HILAssumption
<1>3. PICK cq : cq = completionQueue \cup {Finished(r, now + d)}
  OBVIOUS
<1>4. PICK u : u = updateCompletion(q, cq)
  OBVIOUS
<1>5. e.completions = cq /\ e.events = u[1] /\ e.last = u[2]
  BY <1>1, <1>3, <1>4
<1>6. Finished(r, now + d).finishedAt = now + d /\ now + d \in Nat
      /\ now < now + d
  BY <1>2 DEF Finished
<1>7. Ticks(cq)
  BY <1>3, <1>6 DEF Ticks
<1>8. \E old \in SUBSET cq : /\ Armed(q, old, lastScheduled, now)
                             /\ \A x \in cq \ old : now < x.finishedAt
  BY <1>3, <1>6
<1>9. /\ InOrder(u[1]) /\ NotBefore(u[1], now) /\ u[2] \in Nat
      /\ OthersKept(q, u[1], Completion)
      /\ Armed(u[1], cq, u[2], now)
      /\ \A p : MayMove(p, q, now, Completion)
                => NoneOvertaken(p, u[1]) /\ Fresh(p, u[1], now)
  BY <1>4, <1>7, <1>8, UpdateLemma
<1> QED BY <1>3, <1>5, <1>7, <1>9

(***************************************************************************)
(* Without cores a request made in a callback is executed at once, and     *)
(* schedules nothing while one is due.                                     *)
(***************************************************************************)
LEMMA ExecuteInCallback ==
  ASSUME NEW q, NEW now \in Nat, lastScheduled \in Nat, Ticks(completionQueue),
         Completing(q, completionQueue, lastScheduled, now),
         \E x \in completionQueue : x.finishedAt <= now,
         NEW r, NEW e \in Execute(r, q, now)
  PROVE  /\ e.events = q /\ e.last = lastScheduled
         /\ Ticks(e.completions)
         /\ Completing(q, e.completions, lastScheduled, now)
         /\ completionQueue \subseteq e.completions
<1>1. PICK d \in DeviceLatency :
        e = [completions |-> completionQueue \cup {Finished(r, now + d)},
             events |-> updateCompletion(q, completionQueue \cup
                                            {Finished(r, now + d)})[1],
             last |-> updateCompletion(q, completionQueue \cup
                                          {Finished(r, now + d)})[2]]
  BY DEF Execute
<1>2. d \in Nat \ {0}
  BY HILAssumption
<1>3. PICK cq : cq = completionQueue \cup {Finished(r, now + d)}
  OBVIOUS
<1>4. PICK u : u = updateCompletion(q, cq)
  OBVIOUS
<1>5. e.completions = cq /\ e.events = u[1] /\ e.last = u[2]
  BY <1>1, <1>3, <1>4
<1>6. Finished(r, now + d).finishedAt = now + d /\ now + d \in Nat
      /\ now < now + d
  BY <1>2 DEF Finished
<1>7. Ticks(cq) /\ cq # {}
  BY <1>3, <1>6 DEF Ticks
<1>8. PICK t \in Nat : /\ t = (CHOOSE x \in Tops(cq) : TRUE).finishedAt
                       /\ \E x \in cq : x.finishedAt = t
                       /\ \A x \in cq : t <= x.finishedAt
  BY <1>7, TopLemma
<1>9. \A x \in cq : now <= x.finishedAt
  BY <1>3, <1>6 DEF Completing
<1>10. t = now
  BY <1>3, <1>7, <1>8, <1>9 DEF Ticks
<1>11. u[1] = q /\ u[2] = lastScheduled
  BY <1>4, <1>7, <1>8, <1>10 DEF updateCompletion, Completing
<1> QED BY <1>3, <1>5, <1>7, <1>9, <1>11 DEF Completing

(***************************************************************************)
(* submitJob on core c of the HIL.                                         *)
(***************************************************************************)
LEMMA SubmitJobLemma ==
  ASSUME numCores \in Nat, NEW now \in Nat, NEW q,
         Device0(q, jobs, busy, completionQueue, lastScheduled, now),
         NEW r \in Requests \cup Nat, NEW c \in Core, NEW d \in CoreLatency,
         NEW ev, ev = IF busy[c] THEN q ELSE insertEvent(q, c, now + d),
         NEW j, j = [jobs EXCEPT ![c] = Append(@, r)],
         NEW b, b = [busy EXCEPT ![c] = TRUE]
  PROVE  /\ Device0(ev, j, b, completionQueue, lastScheduled, now)
         /\ OthersKept(q, ev, c)
         /\ \A p : MayMove(p, q, now, c) =>
              NoneOvertaken(p, ev) /\ (d # 0 => Fresh(p, ev, now))
<1>1. c \in Int /\ d \in Nat /\ now + d \in Nat /\ now <= now + d
  BY HILAssumption DEF Core
<1>4. InOrder(q) /\ NotBefore(q, now) /\ CoreTypes(jobs, busy)
      /\ CoresAwake(q, jobs, busy)
  BY DEF Device0
<1>5. Append(jobs[c], r) \in Seq(Requests \cup Nat) /\ Append(jobs[c], r) # <<>>
  BY <1>4 DEF CoreTypes
<1>6. /\ CoreTypes(j, b) /\ b[c] /\ j[c] # <<>>
      /\ \A k \in Core \ {c} : b[k] = busy[k] /\ j[k] = jobs[k]
  BY <1>4, <1>5 DEF CoreTypes
<1>7. /\ InOrder(ev) /\ NotBefore(ev, now) /\ OthersKept(q, ev, c)
      /\ \E u \in Nat : ScheduledAt(ev, c, u)
  <2>1. CASE busy[c]
    BY <1>4, <2>1 DEF CoresAwake, OthersKept
  <2>2. CASE ~busy[c]
    <3>1. ev = insertEvent(q, c, now + d)
      BY <2>2
    <3> QED BY <1>1, <1>4, <3>1, InsertEventLemma
  <2> QED BY <2>1, <2>2
<1>8. CoresAwake(ev, j, b)
  <2> SUFFICES ASSUME NEW k \in Core
               PROVE  /\ b[k] <=> j[k] # <<>>
                      /\ b[k] <=> \E u \in Nat : ScheduledAt(ev, k, u)
    BY DEF CoresAwake
  <2>1. k \in Int
    BY DEF Core
  <2>2. CASE k = c
    BY <1>6, <1>7, <2>2
  <2>3. CASE k # c
    <3>1. /\ b[k] = busy[k] /\ j[k] = jobs[k]
          /\ \A u \in Nat : ScheduledAt(ev, k, u) <=> ScheduledAt(q, k, u)
      BY <1>6, <1>7, <2>1, <2>3 DEF OthersKept
    <3> QED BY <1>4, <3>1 DEF CoresAwake
  <2> QED BY <2>2, <2>3
<1>9. ASSUME NEW p, MayMove(p, q, now, c)
      PROVE  NoneOvertaken(p, ev) /\ (d # 0 => Fresh(p, ev, now))
  <2>1. CASE busy[c]
    BY <1>9, <2>1 DEF MayMove
  <2>2. CASE ~busy[c]
    <3>1. ev = insertEvent(q, c, now + d)
      BY <2>2
    <3>2. NoneOvertaken(p, insertEvent(q, c, now + d))
      BY <1>1, <1>4, <1>9, MoveOvertakesNone
    <3>3. d # 0 => Fresh(p, insertEvent(q, c, now + d), now)
      <4>1. Fresh(p, q, now)
        BY <1>9 DEF MayMove
      <4>2. d # 0 => now # now + d
        BY <1>1
      <4> QED BY <1>1, <1>4, <4>1, <4>2, LaterKeepsFresh
    <3> QED BY <3>1, <3>2, <3>3
  <2> QED BY <2>1, <2>2
<1>10. Device0(ev, j, b, completionQueue, lastScheduled, now)
  BY <1>6, <1>7, <1>8 DEF Device0
<1> QED BY <1>7, <1>9, <1>10

(***************************************************************************)
(* What holds of the completion event between events and within            *)
(* completion().                                                           *)
(***************************************************************************)
Mode(q, cq, last, now, m) ==
  IF m = "idle" THEN Armed(q, cq, last, now) ELSE Completing(q, cq, last, now)

HostKept(q, r) ==
  \A f \in Int, u \in Nat : f < 0 =>
    (ScheduledAt(r, f, u) <=> ScheduledAt(q, f, u))

(***************************************************************************)
(* execute() of the HIL, whenever it is called: on a core, or at once.     *)
(***************************************************************************)
LEMMA SubmissionLemma ==
  ASSUME numCores \in Nat, NEW now \in Nat, NEW q, NEW m,
         Device0(q, jobs, busy, completionQueue, lastScheduled, now),
         Mode(q, completionQueue, lastScheduled, now, m),
         m # "idle" => \E x \in completionQueue : x.finishedAt <= now,
         NEW r \in Requests \cup Nat, NEW o \in Submissions(r, q, now)
  PROVE  /\ Device0(o.events, o.jobs, o.busy, o.completions, o.last, now)
         /\ Mode(o.events, o.completions, o.last, now, m)
         /\ completionQueue \subseteq o.completions
         /\ HostKept(q, o.events)
         /\ \A p : 0 \notin CoreLatency /\ (\A e \in Nat : MayMove(p, q, now, e))
                   => NoneOvertaken(p, o.events) /\ Fresh(p, o.events, now)
<1>0. /\ InOrder(q) /\ NotBefore(q, now) /\ CoreTypes(jobs, busy)
      /\ CoresAwake(q, jobs, busy) /\ Ticks(completionQueue)
      /\ lastScheduled \in Nat
  BY DEF Device0
<1>1. CASE numCores = 0
  <2>1. PICK e \in Execute(r, q, now) :
          o = [jobs |-> jobs, busy |-> busy, events |-> e.events,
               last |-> e.last, completions |-> e.completions,
               state |-> [state EXCEPT ![r] = "device"]]
    BY <1>1 DEF Submissions
  <2>2. /\ o.jobs = jobs /\ o.busy = busy /\ o.events = e.events
        /\ o.last = e.last /\ o.completions = e.completions
    BY <2>1
  <2>3. Core = {}
    BY <1>1 DEF Core
  <2>4. CoresAwake(e.events, jobs, busy)
    BY <2>3 DEF CoresAwake
  <2>5. CASE m = "idle"
    <3>1. Armed(q, completionQueue, lastScheduled, now)
      BY <2>5 DEF Mode
    <3>2. /\ InOrder(e.events) /\ NotBefore(e.events, now)
          /\ OthersKept(q, e.events, Completion)
          /\ Ticks(e.completions) /\ e.last \in Nat
          /\ Armed(e.events, e.completions, e.last, now)
          /\ completionQueue \subseteq e.completions
          /\ \A p : MayMove(p, q, now, Completion)
                    => NoneOvertaken(p, e.events) /\ Fresh(p, e.events, now)
      BY <1>0, <3>1, ExecuteLemma
    <3>3. HostKept(q, e.events)
      BY <3>2 DEF HostKept, OthersKept, Completion
    <3>4. Device0(e.events, jobs, busy, e.completions, e.last, now)
      BY <1>0, <2>4, <3>2 DEF Device0
    <3>5. Completion \in Nat
      BY DEF Completion
    <3>6. Mode(e.events, e.completions, e.last, now, m)
      BY <2>5, <3>2 DEF Mode
    <3> QED BY <2>2, <3>2, <3>3, <3>4, <3>5, <3>6
  <2>6. CASE m # "idle"
    <3>1. Completing(q, completionQueue, lastScheduled, now)
      BY <2>6 DEF Mode
    <3>2. /\ e.events = q /\ e.last = lastScheduled /\ Ticks(e.completions)
          /\ Completing(q, e.completions, lastScheduled, now)
          /\ completionQueue \subseteq e.completions
      BY <1>0, <2>6, <3>1, ExecuteInCallback
    <3>3. HostKept(q, e.events)
      BY <3>2 DEF HostKept
    <3>4. Device0(e.events, jobs, busy, e.completions, e.last, now)
      BY <1>0, <2>4, <3>2 DEF Device0
    <3>5. ASSUME NEW p, \A f \in Nat : MayMove(p, q, now, f)
          PROVE  NoneOvertaken(p, e.events) /\ Fresh(p, e.events, now)
      BY <3>2, <3>5, 0 \in Nat DEF MayMove
    <3>6. Mode(e.events, e.completions, e.last, now, m)
      BY <2>6, <3>2 DEF Mode
    <3> QED BY <2>2, <3>2, <3>3, <3>4, <3>5, <3>6
  <2> QED BY <2>5, <2>6
<1>2. CASE numCores # 0
  <2>1. PICK c \in leastBusyCPU, d \in CoreLatency :
          o = [jobs |-> [jobs EXCEPT ![c] = Append(@, r)],
               busy |-> [busy EXCEPT ![c] = TRUE],
               events |-> IF busy[c] THEN q ELSE insertEvent(q, c, now + d),
               last |-> lastScheduled, completions |-> completionQueue,
               state |-> [state EXCEPT ![r] = "queued"]]
    BY <1>2 DEF Submissions
  <2>2. c \in Core
    BY DEF leastBusyCPU
  <2>3. PICK ev : ev = IF busy[c] THEN q ELSE insertEvent(q, c, now + d)
    OBVIOUS
  <2>4. /\ o.jobs = [jobs EXCEPT ![c] = Append(@, r)]
        /\ o.busy = [busy EXCEPT ![c] = TRUE]
        /\ o.events = ev
        /\ o.last = lastScheduled /\ o.completions = completionQueue
    BY <2>1, <2>3
  <2>5. /\ Device0(ev, o.jobs, o.busy, completionQueue, lastScheduled, now)
        /\ OthersKept(q, ev, c)
        /\ \A p : MayMove(p, q, now, c) =>
             NoneOvertaken(p, ev) /\ (d # 0 => Fresh(p, ev, now))
    <3>1. PICK j : j = [jobs EXCEPT ![c] = Append(@, r)]
      OBVIOUS
    <3>2. PICK b : b = [busy EXCEPT ![c] = TRUE]
      OBVIOUS
    <3>3. /\ Device0(ev, j, b, completionQueue, lastScheduled, now)
          /\ OthersKept(q, ev, c)
          /\ \A p : MayMove(p, q, now, c) =>
               NoneOvertaken(p, ev) /\ (d # 0 => Fresh(p, ev, now))
      BY ONLY numCores \in Nat, now \in Nat, r \in Requests \cup Nat,
              d \in CoreLatency,
              Device0(q, jobs, busy, completionQueue, lastScheduled, now),
              <2>2, <2>3, <3>1, <3>2, SubmitJobLemma
    <3> QED BY <2>4, <3>1, <3>2, <3>3
  <2>6. c \in Nat \ {0}
    BY <2>2 DEF Core
  <2>7. HostKept(q, ev) /\ \A u \in Nat : ScheduledAt(ev, Completion, u) <=>
                                          ScheduledAt(q, Completion, u)
    BY <2>5, <2>6 DEF HostKept, OthersKept, Completion
  <2>8. Mode(ev, completionQueue, lastScheduled, now, m)
    <3>1. CASE m = "idle"
      BY <1>0, <2>7, <3>1 DEF Mode, Armed
    <3>2. CASE m # "idle"
      BY <1>0, <2>7, <3>2 DEF Mode, Completing
    <3> QED BY <3>1, <3>2
  <2>9. ASSUME NEW p, 0 \notin CoreLatency,
               \A f \in Nat : MayMove(p, q, now, f)
        PROVE  NoneOvertaken(p, ev) /\ Fresh(p, ev, now)
    BY <2>5, <2>6, <2>9
  <2> QED BY <2>4, <2>5, <2>7, <2>8, <2>9
<1> QED BY <1>1, <1>2

-----------------------------------------------------------------------------
(***************************************************************************)
(* The generator is a record of its fields, with numbers where it computes *)
(* ticks and names of requests.                                            *)
(***************************************************************************)
IsGenerator(g) ==
  /\ g = [count |-> g.count, depth |-> g.depth, pos |-> g.pos,
          line |-> g.line, first |-> g.first, bytes |-> g.bytes,
          sync |-> g.sync, reserve |-> g.reserve, status |-> g.status]
  /\ g.count \in Nat /\ g.pos \in Nat /\ g.first \in Nat /\ g.line.tick \in Nat

LoadTypes ==
  /\ load.period \in Nat
  /\ load.kind = "trace" => load.lines \in Seq(TraceLine)
  /\ load.kind = "driver" => load.requests \subseteq Requests
  /\ load.kind = "generator" =>
       load = [kind |-> load.kind, type |-> load.type, depth |-> load.depth,
               ioSize |-> load.ioSize, runtime |-> load.runtime,
               blocksize |-> load.blocksize, blockalign |-> load.blockalign,
               offset |-> load.offset, size |-> load.size,
               period |-> load.period]

(***************************************************************************)
(* What the generator does at tick now to itself and the list q, with the  *)
(* result u: of events, it drops that of the statistics and schedules that *)
(* of its next submission.                                                 *)
(***************************************************************************)
Host(q, u, now) ==
  /\ IsGenerator(u[1]) /\ InOrder(u[2]) /\ NotBefore(u[2], now)
  /\ SameForDevice(q, u[2])

Drops(q, u, now) ==
  /\ Host(q, u, now)
  /\ \A p : MayMove(p, q, now, SubmitEvent) =>
            MayMove(p, u[2], now, SubmitEvent)

Adjusts(q, u, now) ==
  /\ Host(q, u, now)
  /\ \A p : MayMove(p, q, now, SubmitEvent) => NoneOvertaken(p, u[2])

(***************************************************************************)
(* What a generator does to its own events, step after step.               *)
(***************************************************************************)
LEMMA DropsThenAdjusts ==
  ASSUME NEW q, NEW u, NEW v, NEW now, Drops(q, u, now), Adjusts(u[2], v, now)
  PROVE  Adjusts(q, v, now)
BY DEF Drops, Adjusts, Host, SameForDevice

LEMMA DropsAdjusts ==
  ASSUME NEW q, NEW u, NEW now, Drops(q, u, now)
  PROVE  Adjusts(q, u, now)
BY DEF Drops, Adjusts, MayMove

LEMMA LeftAloneDrops ==
  ASSUME NEW q, InOrder(q), NEW now, NotBefore(q, now), NEW g, IsGenerator(g),
         NEW u, u = <<g, q>>
  PROVE  Drops(q, u, now)
<1>1. u[1] = g /\ u[2] = q
  OBVIOUS
<1> QED BY <1>1 DEF Drops, Host, SameForDevice

(***************************************************************************)
(* endCallback of main.                                                    *)
(***************************************************************************)
LEMMA EndCallbackLemma ==
  ASSUME NEW q, InOrder(q), NEW now \in Nat, NotBefore(q, now),
         NEW g, IsGenerator(g), NEW u, u = endCallback(g, q)
  PROVE  Drops(q, u, now)
<1>1. PICK r : r = removeEvent(q, StatEvent)
  OBVIOUS
<1>2. u[1] = [g EXCEPT !.status = "ended"] /\ u[2] = r
  BY <1>1 DEF endCallback
<1>3. IsGenerator(u[1])
  BY <1>2 DEF IsGenerator
<1>4. StatEvent \in Int /\ StatEvent < 0 /\ SubmitEvent \in Int
      /\ BeginEvent \in Int /\ BeginEvent # StatEvent /\ SubmitEvent # StatEvent
  BY DEF StatEvent, SubmitEvent, BeginEvent
<1>5. /\ InOrder(r) /\ OthersKept(q, r, StatEvent) /\ NotBefore(r, now)
      /\ \A v : ~ScheduledAt(r, StatEvent, v)
      /\ \A p : NoneOvertaken(p, q) => NoneOvertaken(p, r)
  BY <1>1, <1>4, RemoveEventLemma
<1>6. SameForDevice(q, r)
  BY <1>4, <1>5 DEF SameForDevice, OthersKept
<1>7. r \in Seq(EventEntry) /\ q \in Seq(EventEntry)
  BY <1>5 DEF InOrder
<1>8. ASSUME NEW p, Fresh(p, q, now) PROVE Fresh(p, r, now)
  <2> SUFFICES ASSUME NEW j \in 1 .. Len(r), r[j].tick = now
               PROVE  Listed(p, r[j])
    BY DEF Fresh
  <2>1. r[j] \in EventEntry /\ r[j].eid \in Int
    BY <1>7, EntryTypes
  <2>2. ScheduledAt(r, r[j].eid, now)
    BY <1>5, PlacesLemma
  <2>3. ScheduledAt(q, r[j].eid, now)
    BY <1>5, <2>1, <2>2 DEF OthersKept
  <2>4. PICK i \in 1 .. Len(q) : q[i].eid = r[j].eid /\ q[i].tick = now
    BY <2>3 DEF ScheduledAt, Places
  <2>5. q[i] \in EventEntry
    BY <1>7, EntryTypes
  <2>6. q[i] = r[j]
    BY <2>1, <2>4, <2>5 DEF EventEntry
  <2> QED BY <1>8, <2>4, <2>6 DEF Fresh
<1>9. \A v \in Nat : ScheduledAt(r, SubmitEvent, v) <=>
                     ScheduledAt(q, SubmitEvent, v)
  BY <1>4, <1>5 DEF OthersKept
<1>10. \A p : MayMove(p, q, now, SubmitEvent) => MayMove(p, r, now, SubmitEvent)
  BY <1>5, <1>8, <1>9 DEF MayMove
<1> QED BY <1>2, <1>3, <1>5, <1>6, <1>10 DEF Drops, Host

(***************************************************************************)
(* The next submission is scheduled, not before the current tick.          *)
(***************************************************************************)
LEMMA ScheduleSubmitLemma ==
  ASSUME NEW q, InOrder(q), NEW now \in Nat, NotBefore(q, now),
         NEW g, IsGenerator(g), NEW t \in Nat, now <= t,
         NEW u, u = <<g, insertEvent(q, SubmitEvent, t)>>
  PROVE  Adjusts(q, u, now)
<1>1. PICK r : r = insertEvent(q, SubmitEvent, t)
  OBVIOUS
<1>2. u[1] = g /\ u[2] = r
  BY <1>1
<1>3. SubmitEvent \in Int /\ BeginEvent \in Int /\ BeginEvent # SubmitEvent
      /\ SubmitEvent < 0
  BY DEF SubmitEvent, BeginEvent
<1>4. InOrder(r) /\ OthersKept(q, r, SubmitEvent) /\ NotBefore(r, now)
  BY <1>1, <1>3, InsertEventLemma
<1>5. SameForDevice(q, r)
  BY <1>3, <1>4 DEF SameForDevice, OthersKept
<1>6. \A p : MayMove(p, q, now, SubmitEvent) => NoneOvertaken(p, r)
  BY <1>1, <1>3, MoveOvertakesNone
<1> QED BY <1>2, <1>4, <1>5, <1>6 DEF Adjusts, Host

(***************************************************************************)
(* parseLine, which finds the next line of the trace or its end.           *)
(***************************************************************************)
LEMMA ParseLineLemma ==
  ASSUME NEW q, InOrder(q), NEW now \in Nat, NotBefore(q, now),
         LoadTypes, load.kind = "trace",
         NEW g, IsGenerator(g), NEW st, NEW u, u = parseLine(g, q, st)
  PROVE  Drops(q, u, now)
<1> DEFINE lines == {i \in Matched : i > g.pos}
<1>0. PICK eof : eof = [g EXCEPT !.pos = Len(load.lines), !.reserve = TRUE]
  OBVIOUS
<1>1. load.lines \in Seq(TraceLine) /\ Len(load.lines) \in Nat
  BY DEF LoadTypes
<1>2. IsGenerator(eof)
  <2>1. eof = [count |-> g.count, depth |-> g.depth, pos |-> Len(load.lines),
               line |-> g.line, first |-> g.first, bytes |-> g.bytes,
               sync |-> g.sync, reserve |-> TRUE, status |-> g.status]
    BY <1>0 DEF IsGenerator
  <2> QED BY <1>1, <2>1 DEF IsGenerator
<1>3. CASE lines = {}
  <2>1. CASE g.depth = 0
    <3>1. u = endCallback(eof, q)
      BY <1>0, <1>3, <2>1 DEF parseLine
    <3> QED BY <1>2, <3>1, EndCallbackLemma
  <2>2. CASE g.depth # 0
    <3>1. u = <<eof, q>>
      BY <1>0, <1>3, <2>2 DEF parseLine
    <3> QED BY <1>2, <3>1, LeftAloneDrops
  <2> QED BY <2>1, <2>2
<1>4. CASE lines # {}
  <2>1. lines \subseteq Nat
    BY <1>1 DEF Matched
  <2>2. PICK n \in lines : n = Min(lines)
    BY <1>4, <2>1, MinLemma
  <2>3. n \in 1 .. Len(load.lines)
    BY <2>2 DEF Matched
  <2>4. load.lines[n] \in TraceLine
    BY <1>1, <2>3
  <2>5. load.lines[n].tick \in Nat
    BY <2>4 DEF TraceLine
  <2>6. PICK h : h = [g EXCEPT !.pos = n, !.line = load.lines[n],
                               !.count = @ + 1,
                               !.reserve = @ \/ IclCount(st) > load.limit]
    OBVIOUS
  <2>7. u = <<h, q>>
    BY <1>4, <2>2, <2>6 DEF parseLine
  <2>8. IsGenerator(h)
    <3>1. PICK b : b = (g.reserve \/ IclCount(st) > load.limit)
      OBVIOUS
    <3>2. h = [count |-> g.count + 1, depth |-> g.depth, pos |-> n,
               line |-> load.lines[n], first |-> g.first, bytes |-> g.bytes,
               sync |-> g.sync, reserve |-> b, status |-> g.status]
      BY <2>6, <3>1 DEF IsGenerator
    <3>3. n \in Nat /\ g.count + 1 \in Nat
      BY <2>3 DEF IsGenerator
    <3> QED BY <2>5, <3>2, <3>3 DEF IsGenerator
  <2> QED BY <2>7, <2>8, LeftAloneDrops
<1> QED BY <1>3, <1>4

(***************************************************************************)
(* rescheduleSubmit of the trace replayer.                                 *)
(***************************************************************************)
LEMMA RescheduleLemma ==
  ASSUME NEW q, InOrder(q), NEW now \in Nat, NotBefore(q, now),
         NEW g, IsGenerator(g), NEW breakTime \in Nat,
         NEW u, u = rescheduleSubmit(g, q, now, breakTime)
  PROVE  Adjusts(q, u, now)
<1>1. CASE load.mode = "async" /\ g.depth >= load.depth
  <2>1. PICK h : h = [g EXCEPT !.sync = TRUE]
    OBVIOUS
  <2>2. u = <<h, q>>
    BY <1>1, <2>1 DEF rescheduleSubmit
  <2>3. IsGenerator(h)
    BY <2>1 DEF IsGenerator
  <2> QED BY <2>2, <2>3, LeftAloneDrops, DropsAdjusts
<1>2. CASE ~(load.mode = "async" /\ g.depth >= load.depth)
           /\ load.mode = "strict"
  <2>1. u = <<g, q>>
    BY <1>2 DEF rescheduleSubmit
  <2> QED BY <2>1, LeftAloneDrops, DropsAdjusts
<1>3. CASE ~(load.mode = "async" /\ g.depth >= load.depth)
           /\ load.mode # "strict"
  <2>1. u = <<g, insertEvent(q, SubmitEvent, now + breakTime)>>
    BY <1>3 DEF rescheduleSubmit
  <2>2. now + breakTime \in Nat /\ now <= now + breakTime
    OBVIOUS
  <2> QED BY <2>1, <2>2, ScheduleSubmitLemma
<1> QED BY <1>1, <1>2, <1>3

(***************************************************************************)
(* What is left of a number modulo another one.                            *)
(***************************************************************************)
LEMMA Remainder ==
  ASSUME NEW a \in Int, NEW b \in Nat \ {0}
  PROVE  a % b \in Nat
OBVIOUS

(***************************************************************************)
(* The tick of a line is a tick.                                           *)
(***************************************************************************)
LEMMA LineTickNat ==
  ASSUME NEW g, IsGenerator(g)
  PROVE  LineTick(g) \in Nat
<1>1. PICK a : a = g.line.tick - g.first
  OBVIOUS
<1>2. a \in Int /\ Word \in Nat \ {0}
  BY <1>1, StackAssumption DEF IsGenerator
<1> QED BY <1>1, <1>2, Remainder DEF LineTick

(***************************************************************************)
(* What the trace replayer does after a submission, in either mode.        *)
(***************************************************************************)
LEMMA AfterSubmitLemma ==
  ASSUME NEW q, InOrder(q), NEW now \in Nat, NotBefore(q, now),
         LoadTypes, load.kind = "trace", NEW g, IsGenerator(g),
         NEW o, o.events = q, NEW u, u = AfterSubmit(g, o, now)
  PROVE  Adjusts(q, u, now)
<1>1. PICK deeper : deeper = [g EXCEPT !.depth = @ + 1]
  OBVIOUS
<1>2. PICK parsed : parsed = parseLine(deeper, q, o.state)
  OBVIOUS
<1>3. PICK done : done = [deeper EXCEPT !.reserve = TRUE]
  OBVIOUS
<1>4. IsGenerator(deeper)
  BY <1>1 DEF IsGenerator
<1>5. IsGenerator(done)
  BY <1>3, <1>4 DEF IsGenerator
<1>6. Drops(q, parsed, now)
  BY <1>2, <1>4, ParseLineLemma
<1>7. /\ IsGenerator(parsed[1]) /\ InOrder(parsed[2])
      /\ NotBefore(parsed[2], now)
  BY <1>6 DEF Drops, Host
<1>8. CASE load.maxIO # 0 /\ g.count >= load.maxIO
  <2>1. u = <<done, q>>
    BY <1>1, <1>3, <1>8 DEF AfterSubmit
  <2> QED BY <1>5, <2>1, LeftAloneDrops, DropsAdjusts
<1>9. CASE ~(load.maxIO # 0 /\ g.count >= load.maxIO) /\ u = parsed
  BY <1>6, <1>9, DropsAdjusts
<1>10. CASE /\ ~(load.maxIO # 0 /\ g.count >= load.maxIO) /\ u # parsed
            /\ load.mode = "strict"
  <2>1. PICK t : t = Clamped(LineTick(parsed[1]), now)
    OBVIOUS
  <2>2. u = <<parsed[1], insertEvent(parsed[2], SubmitEvent, t)>>
    BY <1>1, <1>2, <1>10, <2>1 DEF AfterSubmit
  <2>3. LineTick(parsed[1]) \in Nat
    BY <1>7, LineTickNat
  <2>4. t \in Nat /\ now <= t
    BY <2>1, <2>3 DEF Clamped
  <2>5. Adjusts(parsed[2], u, now)
    BY <1>7, <2>2, <2>4, ScheduleSubmitLemma
  <2> QED BY <1>6, <2>5, DropsThenAdjusts
<1>11. CASE /\ ~(load.maxIO # 0 /\ g.count >= load.maxIO) /\ u # parsed
            /\ load.mode # "strict"
  <2>1. u = rescheduleSubmit(parsed[1], parsed[2], now, SubmissionLatency)
    BY <1>1, <1>2, <1>11 DEF AfterSubmit
  <2>2. SubmissionLatency \in Nat
    BY StackAssumption
  <2>3. Adjusts(parsed[2], u, now)
    BY <1>7, <2>1, <2>2, RescheduleLemma
  <2> QED BY <1>6, <2>3, DropsThenAdjusts
<1> QED BY <1>8, <1>9, <1>10, <1>11

(***************************************************************************)
(* iocallback of the trace replayer.                                       *)
(***************************************************************************)
LEMMA TraceCallbackLemma ==
  ASSUME NEW q, InOrder(q), NEW now \in Nat, NotBefore(q, now),
         NEW g, IsGenerator(g), NEW u, u = TraceCallback(g, q, now)
  PROVE  Adjusts(q, u, now)
<1>1. PICK h : h = [g EXCEPT !.depth = @ - 1]
  OBVIOUS
<1>2. IsGenerator(h)
  BY <1>1 DEF IsGenerator
<1>3. PICK v : v = EndWhenIdle(h, q)
  OBVIOUS
<1>4. Drops(q, v, now)
  <2>1. CASE h.reserve /\ h.depth = 0
    <3>1. v = endCallback(h, q)
      BY <1>3, <2>1 DEF EndWhenIdle
    <3> QED BY <1>2, <3>1, EndCallbackLemma
  <2>2. CASE ~(h.reserve /\ h.depth = 0)
    <3>1. v = <<h, q>>
      BY <1>3, <2>2 DEF EndWhenIdle
    <3> QED BY <1>2, <3>1, LeftAloneDrops
  <2> QED BY <2>1, <2>2
<1>5. CASE load.mode = "sync" \/ g.sync
  <2>1. PICK w : w = [v[1] EXCEPT !.sync = FALSE]
    OBVIOUS
  <2>2. u = rescheduleSubmit(w, v[2], now, SubmissionLatency + CompletionLatency)
    BY <1>1, <1>3, <1>5, <2>1 DEF TraceCallback
  <2>3. SubmissionLatency + CompletionLatency \in Nat
    BY StackAssumption
  <2>4. IsGenerator(v[1]) /\ InOrder(v[2]) /\ NotBefore(v[2], now)
    BY <1>4 DEF Drops, Host
  <2>5. IsGenerator(w)
    BY <2>1, <2>4 DEF IsGenerator
  <2>6. Adjusts(v[2], u, now)
    BY <2>2, <2>3, <2>4, <2>5, RescheduleLemma
  <2> QED BY <1>4, <2>6, DropsThenAdjusts
<1>6. CASE ~(load.mode = "sync" \/ g.sync)
  <2>1. u = v
    BY <1>1, <1>3, <1>6 DEF TraceCallback
  <2> QED BY <1>4, <2>1, DropsAdjusts
<1> QED BY <1>5, <1>6

(***************************************************************************)
(* rescheduleSubmit and iocallback of the request generator.               *)
(***************************************************************************)
LEMMA GenRescheduleLemma ==
  ASSUME NEW q, InOrder(q), NEW now \in Nat, NotBefore(q, now),
         NEW g, IsGenerator(g), NEW breakTime \in Nat,
         NEW u, u = GenReschedule(g, q, now, breakTime)
  PROVE  Adjusts(q, u, now)
<1>1. PICK done : done = [g EXCEPT !.reserve = TRUE]
  OBVIOUS
<1>2. IsGenerator(done)
  BY <1>1 DEF IsGenerator
<1>3. CASE u = endCallback(done, q)
  BY <1>2, <1>3, EndCallbackLemma, DropsAdjusts
<1>4. CASE u = <<done, q>>
  BY <1>2, <1>4, LeftAloneDrops, DropsAdjusts
<1>5. CASE u = <<g, insertEvent(q, SubmitEvent, now + breakTime)>>
  <2>1. now + breakTime \in Nat /\ now <= now + breakTime
    OBVIOUS
  <2> QED BY <1>5, <2>1, ScheduleSubmitLemma
<1>6. CASE u = <<g, q>>
  BY <1>6, LeftAloneDrops, DropsAdjusts
<1> QED BY <1>1, <1>3, <1>4, <1>5, <1>6 DEF GenReschedule

LEMMA GenCallbackLemma ==
  ASSUME NEW q, InOrder(q), NEW now \in Nat, NotBefore(q, now),
         NEW g, IsGenerator(g), NEW u, u = GenCallback(g, q, now)
  PROVE  Adjusts(q, u, now)
<1>1. PICK fewer : fewer = [g EXCEPT !.depth = @ - 1]
  OBVIOUS
<1>2. IsGenerator(fewer)
  BY <1>1 DEF IsGenerator
<1>3. CASE u = endCallback(fewer, q)
  BY <1>2, <1>3, EndCallbackLemma, DropsAdjusts
<1>4. CASE u = <<fewer, q>>
  BY <1>2, <1>4, LeftAloneDrops, DropsAdjusts
<1>5. CASE u = GenReschedule(fewer, q, now, SubmissionLatency + CompletionLatency)
  <2>1. SubmissionLatency + CompletionLatency \in Nat
    BY StackAssumption
  <2> QED BY <1>2, <1>5, <2>1, GenRescheduleLemma
<1> QED BY <1>1, <1>3, <1>4, <1>5 DEF GenCallback

-----------------------------------------------------------------------------
(***************************************************************************)
(* The inductive invariant.  The generator begins at tick 0, whatever the  *)
(* engine's clock says when its event fires.                               *)
(***************************************************************************)
BeginsAtZero(q) == \A u \in Nat : ScheduledAt(q, BeginEvent, u) => u = 0

HostState(q, j, b, cq, last, now, m) ==
  /\ now \in Nat /\ m \in {"idle", "completing"}
  /\ Device0(q, j, b, cq, last, now) /\ Mode(q, cq, last, now, m)
  /\ BeginsAtZero(q)

HostInv ==
  /\ numCores \in Nat
  /\ HostState(eventQueue, jobs, busy, completionQueue, lastScheduled,
               simTick, pc)
  /\ LoadTypes /\ IsGenerator(gen)

(***************************************************************************)
(* What every step does: it keeps the invariant, completes requests only   *)
(* at the tick at which they are finished, and puts no event before one    *)
(* that was scheduled earlier.                                             *)
(***************************************************************************)
Kept ==
  /\ HostInv'
  /\ \A x \in completionQueue \ completionQueue' : simTick' = x.finishedAt
  /\ 0 \notin CoreLatency => NoneOvertaken(eventQueue, eventQueue')

(***************************************************************************)
(* The parts of the invariant in the next state.                           *)
(***************************************************************************)
LEMMA NextState ==
  ASSUME numCores \in Nat, numCores' = numCores,
         HostState(eventQueue', jobs', busy', completionQueue',
                   lastScheduled', simTick', pc'),
         LoadTypes', IsGenerator(gen')
  PROVE  HostInv'
BY DEF HostInv, HostState, Device0, Mode, BeginsAtZero, CoreTypes, CoresAwake,
       Core, InOrder, Sorted, OncePerEvent, NotBefore, Ticks, Armed, Completing,
       IsGenerator

(***************************************************************************)
(* An event of the host fires: the device is as it was, and the clock is   *)
(* not before it.                                                          *)
(***************************************************************************)
LEMMA HostEventFires ==
  ASSUME HostInv, pc = "idle", eventQueue # <<>>,
         NEW h, h = Head(eventQueue), NEW r, r = Tail(eventQueue), h.eid < 0
  PROVE  /\ HostState(r, jobs, busy, completionQueue, lastScheduled, h.tick,
                      "idle")
         /\ \A e \in Int : MayMove(eventQueue, r, h.tick, e)
         /\ ScheduledAt(eventQueue, h.eid, h.tick)
<1>0. /\ numCores \in Nat /\ simTick \in Nat
      /\ InOrder(eventQueue) /\ NotBefore(eventQueue, simTick)
      /\ CoreTypes(jobs, busy) /\ CoresAwake(eventQueue, jobs, busy)
      /\ Ticks(completionQueue) /\ lastScheduled \in Nat
      /\ Armed(eventQueue, completionQueue, lastScheduled, simTick)
      /\ BeginsAtZero(eventQueue)
  BY DEF HostInv, HostState, Device0, Mode
<1>1. /\ h.tick \in Nat /\ h.eid \in Int
      /\ ScheduledAt(eventQueue, h.eid, h.tick) /\ simTick <= h.tick
      /\ InOrder(r) /\ NotBefore(r, h.tick) /\ OthersKept(eventQueue, r, h.eid)
      /\ \A u : ~ScheduledAt(r, h.eid, u)
  BY <1>0, NextEventLemma
<1>2. \A e \in Int : MayMove(eventQueue, r, h.tick, e)
  BY <1>0, FrontTaken
<1>3. \A f \in Nat, u \in Nat :
        ScheduledAt(r, f, u) <=> ScheduledAt(eventQueue, f, u)
  <2>1. \A f \in Nat : f \in Int /\ f # h.eid
    OBVIOUS
  <2> QED BY <1>1, <2>1 DEF OthersKept
<1>4. CoresAwake(r, jobs, busy)
  <2>1. \A c \in Core : c \in Nat
    BY <1>0 DEF Core
  <2> QED BY <1>0, <1>3, <2>1 DEF CoresAwake
<1>5. Armed(r, completionQueue, lastScheduled, h.tick)
  <2>1. Completion \in Nat
    BY DEF Completion
  <2>2. lastScheduled <= simTick => lastScheduled <= h.tick
    BY <1>0, <1>1
  <2> QED BY <1>0, <1>3, <2>1, <2>2 DEF Armed
<1>6. BeginsAtZero(r)
  <2>1. BeginEvent \in Int
    BY DEF BeginEvent
  <2> QED BY <1>0, <1>1, <2>1 DEF BeginsAtZero, OthersKept
<1> QED BY <1>0, <1>1, <1>2, <1>4, <1>5, <1>6 DEF HostState, Device0, Mode

(***************************************************************************)
(* The generator or another user of the engine changes only what the       *)
(* device does not look at.                                                *)
(***************************************************************************)
LEMMA SameStateForDevice ==
  ASSUME numCores \in Nat, NEW q, NEW j, NEW b, NEW cq, NEW last, NEW now,
         NEW m, HostState(q, j, b, cq, last, now, m),
         NEW r, InOrder(r), NotBefore(r, now), SameForDevice(q, r)
  PROVE  HostState(r, j, b, cq, last, now, m)
<1>1. last \in Nat /\ Device0(q, j, b, cq, last, now) /\ now \in Nat
      /\ m \in {"idle", "completing"}
      /\ Mode(q, cq, last, now, m) /\ BeginsAtZero(q)
      /\ CoresAwake(q, j, b) /\ CoreTypes(j, b) /\ Ticks(cq)
  BY DEF HostState, Device0
<1>2. /\ CoresAwake(q, j, b) => CoresAwake(r, j, b)
      /\ Armed(q, cq, last, now) => Armed(r, cq, last, now)
      /\ Completing(q, cq, last, now) => Completing(r, cq, last, now)
  BY <1>1, SameForDeviceKeeps
<1>3. BeginsAtZero(r)
  BY <1>1 DEF BeginsAtZero, SameForDevice
<1>4. Mode(r, cq, last, now, m)
  BY <1>1, <1>2 DEF Mode
<1> QED BY <1>1, <1>2, <1>3, <1>4 DEF HostState, Device0

(***************************************************************************)
(* An event of the host side is none of the device.                        *)
(***************************************************************************)
LEMMA OthersKeptForDevice ==
  ASSUME NEW q, NEW r, NEW e \in Int, e < BeginEvent, OthersKept(q, r, e)
  PROVE  SameForDevice(q, r)
<1>1. \A f \in Nat \cup {BeginEvent} : f \in Int /\ f # e
  BY DEF BeginEvent
<1> QED BY <1>1 DEF OthersKept, SameForDevice

(***************************************************************************)
(* A submission from a state of the stack leads to a state of the stack.   *)
(***************************************************************************)
LEMMA SubmissionKeeps ==
  ASSUME numCores \in Nat, NEW now, NEW q, NEW m,
         HostState(q, jobs, busy, completionQueue, lastScheduled, now, m),
         m # "idle" => \E x \in completionQueue : x.finishedAt <= now,
         NEW r \in Requests \cup Nat, NEW o \in Submissions(r, q, now)
  PROVE  /\ HostState(o.events, o.jobs, o.busy, o.completions, o.last, now, m)
         /\ completionQueue \subseteq o.completions
         /\ \A p : 0 \notin CoreLatency /\ (\A e \in Int : MayMove(p, q, now, e))
                   => /\ NoneOvertaken(p, o.events)
                      /\ MayMove(p, o.events, now, SubmitEvent)
<1>1. /\ now \in Nat /\ m \in {"idle", "completing"}
      /\ Device0(q, jobs, busy, completionQueue, lastScheduled, now)
      /\ Mode(q, completionQueue, lastScheduled, now, m) /\ BeginsAtZero(q)
  BY DEF HostState
<1>2. /\ Device0(o.events, o.jobs, o.busy, o.completions, o.last, now)
      /\ Mode(o.events, o.completions, o.last, now, m)
      /\ completionQueue \subseteq o.completions
      /\ HostKept(q, o.events)
      /\ \A p : 0 \notin CoreLatency /\ (\A e \in Nat : MayMove(p, q, now, e))
                => NoneOvertaken(p, o.events) /\ Fresh(p, o.events, now)
  BY <1>1, SubmissionLemma
<1>3. /\ BeginEvent \in Int /\ BeginEvent < 0
      /\ SubmitEvent \in Int /\ SubmitEvent < 0
  BY DEF BeginEvent, SubmitEvent
<1>4. BeginsAtZero(o.events)
  BY <1>1, <1>2, <1>3 DEF BeginsAtZero, HostKept
<1>5. HostState(o.events, o.jobs, o.busy, o.completions, o.last, now, m)
  BY <1>1, <1>2, <1>4 DEF HostState
<1>6. ASSUME NEW p, 0 \notin CoreLatency, \A e \in Int : MayMove(p, q, now, e)
      PROVE  NoneOvertaken(p, o.events) /\ MayMove(p, o.events, now, SubmitEvent)
  <2>1. \A e \in Nat : MayMove(p, q, now, e)
    BY <1>6
  <2>2. NoneOvertaken(p, o.events) /\ Fresh(p, o.events, now)
    BY <1>2, <1>6, <2>1
  <2>3. MayMove(p, q, now, SubmitEvent)
    BY <1>3, <1>6
  <2>4. \A u \in Nat : Listed(p, Entry(SubmitEvent, u)) =>
                         ScheduledAt(o.events, SubmitEvent, u) \/ u = now
    BY <1>2, <1>3, <2>3 DEF MayMove, HostKept
  <2> QED BY <2>2, <2>4 DEF MayMove
<1> QED BY <1>2, <1>5, <1>6

(***************************************************************************)
(* The steps of the host.  A submission is followed by what the generator  *)
(* does next, with the result u.                                           *)
(***************************************************************************)
LEMMA SubmittedKeeps ==
  ASSUME HostInv, pc = "idle", NEW r, NEW t,
         HostState(r, jobs, busy, completionQueue, lastScheduled, t, "idle"),
         \A e \in Int : MayMove(eventQueue, r, t, e),
         NEW id \in Nat, NEW o \in Submissions(id, r, t), Submitted(o),
         NEW u, Adjusts(o.events, u, t), HostBecomes(u),
         simTick' = t, numCores' = numCores, pc' = pc, LoadTypes'
  PROVE  Kept
<1>1. numCores \in Nat
  BY DEF HostInv
<1>2. id \in Requests \cup Nat
  OBVIOUS
<1>3. /\ HostState(o.events, o.jobs, o.busy, o.completions, o.last, t, "idle")
      /\ completionQueue \subseteq o.completions
      /\ \A p : 0 \notin CoreLatency /\ (\A e \in Int : MayMove(p, r, t, e))
                => /\ NoneOvertaken(p, o.events)
                   /\ MayMove(p, o.events, t, SubmitEvent)
  BY <1>1, <1>2, SubmissionKeeps
<1>4. /\ IsGenerator(u[1]) /\ InOrder(u[2]) /\ NotBefore(u[2], t)
      /\ SameForDevice(o.events, u[2])
      /\ \A p : MayMove(p, o.events, t, SubmitEvent) => NoneOvertaken(p, u[2])
  BY DEF Adjusts, Host
<1>5. HostState(u[2], o.jobs, o.busy, o.completions, o.last, t, "idle")
  BY <1>1, <1>3, <1>4, SameStateForDevice
<1>6. /\ eventQueue' = u[2] /\ gen' = u[1] /\ jobs' = o.jobs /\ busy' = o.busy
      /\ completionQueue' = o.completions /\ lastScheduled' = o.last
      /\ pc' = "idle"
  BY DEF Submitted, HostBecomes
<1>7. HostInv'
  BY <1>1, <1>4, <1>5, <1>6, NextState
<1>8. 0 \notin CoreLatency => NoneOvertaken(eventQueue, eventQueue')
  BY <1>3, <1>4, <1>6
<1> QED BY <1>3, <1>6, <1>7, <1>8 DEF Kept

(***************************************************************************)
(* A step of the host that leaves the device alone.                        *)
(***************************************************************************)
LEMMA HostStepKeeps ==
  ASSUME HostInv, NEW r, NEW t,
         HostState(r, jobs, busy, completionQueue, lastScheduled, t, pc),
         InOrder(eventQueue'), NotBefore(eventQueue', t),
         SameForDevice(r, eventQueue'),
         0 \notin CoreLatency => NoneOvertaken(eventQueue, eventQueue'),
         simTick' = t, LoadTypes', IsGenerator(gen'),
         UNCHANGED <<numCores, jobs, busy, completionQueue, lastScheduled, pc>>
  PROVE  Kept
<1>1. numCores \in Nat
  BY DEF HostInv
<1>2. PICK s : s = eventQueue'
  OBVIOUS
<1>3. HostState(s, jobs, busy, completionQueue, lastScheduled, t, pc)
  BY <1>1, <1>2, SameStateForDevice
<1>4. HostState(eventQueue', jobs', busy', completionQueue', lastScheduled',
                simTick', pc')
  BY <1>2, <1>3
<1>5. HostInv'
  BY <1>1, <1>4, NextState
<1> QED BY <1>5 DEF Kept

(***************************************************************************)
(* The workload never changes.                                             *)
(***************************************************************************)
LEMMA LoadUnchanged ==
  ASSUME LoadTypes, UNCHANGED load
  PROVE  LoadTypes'
BY DEF LoadTypes

(***************************************************************************)
(* The trace replayer submits a line.                                      *)
(***************************************************************************)
LEMMA TraceSubmitsKeeps ==
  ASSUME HostInv, pc = "idle", load.kind = "trace", NEW r, r = Tail(eventQueue),
         NEW t,
         HostState(r, jobs, busy, completionQueue, lastScheduled, t, "idle"),
         \A e \in Int : MayMove(eventQueue, r, t, e),
         NEW g, IsGenerator(g), TraceSubmits(g, t), simTick' = t,
         UNCHANGED <<numCores, pc, load>>
  PROVE  Kept
<1>1. LoadTypes /\ LoadTypes'
  BY LoadUnchanged DEF HostInv
<1>2. CASE g.line.type = "unknown"
  <2>1. /\ gen' = [g EXCEPT !.status = "panic"] /\ eventQueue' = r
        /\ UNCHANGED <<jobs, busy, completionQueue, lastScheduled>>
    BY <1>2 DEF TraceSubmits
  <2>2. IsGenerator(gen')
    BY <2>1 DEF IsGenerator
  <2>3. InOrder(eventQueue') /\ NotBefore(eventQueue', t)
    BY <2>1 DEF HostState, Device0
  <2>4. SameForDevice(r, eventQueue')
    BY <2>1 DEF SameForDevice
  <2>5. NoneOvertaken(eventQueue, eventQueue')
    <3>1. MayMove(eventQueue, r, t, SubmitEvent)
      BY DEF SubmitEvent
    <3> QED BY <2>1, <3>1 DEF MayMove
  <2> QED BY <1>1, <2>1, <2>2, <2>3, <2>4, <2>5, HostStepKeeps
<1>3. CASE g.line.type # "unknown"
  <2>1. PICK o \in Submissions(g.count, r, t) :
          Submitted(o) /\ HostBecomes(AfterSubmit(g, o, t))
    BY <1>3 DEF TraceSubmits, Bio
  <2>2. g.count \in Nat
    BY DEF IsGenerator
  <2>3. numCores \in Nat /\ t \in Nat
    BY DEF HostInv, HostState
  <2>4. HostState(o.events, o.jobs, o.busy, o.completions, o.last, t, "idle")
    BY <2>2, <2>3, SubmissionKeeps
  <2>5. PICK q : q = o.events
    OBVIOUS
  <2>6. InOrder(q) /\ NotBefore(q, t)
    BY <2>4, <2>5 DEF HostState, Device0
  <2>7. PICK u : u = AfterSubmit(g, o, t)
    OBVIOUS
  <2>8. Adjusts(q, u, t)
    BY <1>1, <2>3, <2>5, <2>6, <2>7, AfterSubmitLemma
  <2> QED BY <1>1, <2>1, <2>2, <2>5, <2>7, <2>8, SubmittedKeeps
<1> QED BY <1>2, <1>3

(***************************************************************************)
(* begin of the trace replayer.                                            *)
(***************************************************************************)
LEMMA BeginTraceKeeps ==
  ASSUME HostInv, BeginTrace
  PROVE  Kept
<1>0. /\ numCores \in Nat /\ LoadTypes /\ IsGenerator(gen)
      /\ BeginsAtZero(eventQueue) /\ UNCHANGED <<numCores, pc, load>>
      /\ pc = "idle" /\ eventQueue # <<>> /\ load.kind = "trace"
  BY DEF HostInv, HostState, BeginTrace, Fires
<1>1. LoadTypes'
  BY <1>0, LoadUnchanged
<1>2. PICK h : h = Head(eventQueue)
  OBVIOUS
<1>3. PICK r : r = Tail(eventQueue)
  OBVIOUS
<1>4. h.eid = BeginEvent /\ h.eid < 0 /\ simTick' = h.tick
  BY <1>2 DEF BeginTrace, Fires, BeginEvent
<1>5. /\ HostState(r, jobs, busy, completionQueue, lastScheduled, h.tick,
                   "idle")
      /\ \A e \in Int : MayMove(eventQueue, r, h.tick, e)
      /\ ScheduledAt(eventQueue, h.eid, h.tick)
  BY <1>0, <1>2, <1>3, <1>4, HostEventFires
<1>6. h.tick = 0 /\ h.tick \in Nat
  BY <1>0, <1>4, <1>5 DEF BeginsAtZero, HostState
<1>7. InOrder(r) /\ NotBefore(r, h.tick)
  BY <1>5 DEF HostState, Device0
<1>8. PICK u : u = parseLine(gen, r, state)
  OBVIOUS
<1>9. Drops(r, u, h.tick)
  BY <1>0, <1>6, <1>7, <1>8, ParseLineLemma
<1>10. PICK g : g = [u[1] EXCEPT !.first =
                       IF load.mode = "strict" THEN u[1].line.tick ELSE 0]
  OBVIOUS
<1>11. IsGenerator(u[1]) /\ InOrder(u[2]) /\ NotBefore(u[2], h.tick)
  BY <1>9 DEF Drops, Host
<1>12. IsGenerator(g)
  BY <1>10, <1>11 DEF IsGenerator
<1>13. CASE g.reserve
  <2>1. PICK v : v = endCallback(g, u[2])
    OBVIOUS
  <2>2. HostBecomes(v) /\ UNCHANGED <<jobs, busy, completionQueue, lastScheduled>>
    BY <1>3, <1>8, <1>10, <1>13, <2>1 DEF BeginTrace
  <2>3. Drops(u[2], v, h.tick)
    BY <1>6, <1>11, <1>12, <2>1, EndCallbackLemma
  <2>4. Adjusts(r, v, h.tick)
    BY <1>9, <2>3, DropsAdjusts, DropsThenAdjusts
  <2>5. /\ IsGenerator(gen') /\ InOrder(eventQueue')
        /\ NotBefore(eventQueue', h.tick) /\ SameForDevice(r, eventQueue')
        /\ \A p : MayMove(p, r, h.tick, SubmitEvent) =>
                  NoneOvertaken(p, eventQueue')
    BY <2>2, <2>4 DEF Adjusts, Host, HostBecomes
  <2>6. NoneOvertaken(eventQueue, eventQueue')
    BY <1>5, <2>5 DEF SubmitEvent
  <2> QED BY <1>0, <1>1, <1>4, <1>5, <2>2, <2>5, <2>6, HostStepKeeps
<1>14. CASE ~g.reserve
  <2>1. TraceSubmits(g, 0)
    BY <1>3, <1>8, <1>10, <1>14 DEF BeginTrace
  <2> QED BY <1>0, <1>3, <1>4, <1>5, <1>6, <1>12, <2>1, TraceSubmitsKeeps
<1> QED BY <1>13, <1>14

(***************************************************************************)
(* The submit event of the trace replayer.                                 *)
(***************************************************************************)
LEMMA SubmitTraceKeeps ==
  ASSUME HostInv, SubmitTrace
  PROVE  Kept
<1>0. /\ IsGenerator(gen) /\ UNCHANGED <<numCores, pc, load>>
      /\ pc = "idle" /\ eventQueue # <<>> /\ load.kind = "trace"
  BY DEF HostInv, SubmitTrace, Fires
<1>2. PICK h : h = Head(eventQueue)
  OBVIOUS
<1>3. PICK r : r = Tail(eventQueue)
  OBVIOUS
<1>4. h.eid < 0 /\ simTick' = h.tick /\ TraceSubmits(gen, h.tick)
  BY <1>2 DEF SubmitTrace, Fires, SubmitEvent
<1>5. /\ HostState(r, jobs, busy, completionQueue, lastScheduled, h.tick,
                   "idle")
      /\ \A e \in Int : MayMove(eventQueue, r, h.tick, e)
  BY <1>0, <1>2, <1>3, <1>4, HostEventFires
<1> QED BY <1>0, <1>3, <1>4, <1>5, TraceSubmitsKeeps

(***************************************************************************)
(* submitIO of the request generator.                                      *)
(***************************************************************************)
LEMMA GenSubmitsKeeps ==
  ASSUME HostInv, pc = "idle", NEW r, r = Tail(eventQueue), NEW t,
         HostState(r, jobs, busy, completionQueue, lastScheduled, t, "idle"),
         \A e \in Int : MayMove(eventQueue, r, t, e),
         NEW w, GenSubmits(w, t), simTick' = t,
         UNCHANGED <<numCores, pc>>, LoadTypes'
  PROVE  Kept
<1>0. IsGenerator(gen) /\ numCores \in Nat /\ t \in Nat
  BY DEF HostInv, HostState
<1>1. PICK g : g = [gen EXCEPT !.count = @ + 1, !.depth = @ + 1,
                               !.bytes = @ + w.blocksize]
  OBVIOUS
<1>2. gen.count \in Nat /\ IsGenerator(g)
  <2>1. gen.count \in Nat /\ gen.count + 1 \in Nat
    BY <1>0 DEF IsGenerator
  <2>2. g = [count |-> gen.count + 1, depth |-> gen.depth + 1,
             pos |-> gen.pos, line |-> gen.line, first |-> gen.first,
             bytes |-> gen.bytes + w.blocksize, sync |-> gen.sync,
             reserve |-> gen.reserve, status |-> gen.status]
    BY <1>0, <1>1 DEF IsGenerator
  <2> QED BY <1>0, <2>1, <2>2 DEF IsGenerator
<1>3. PICK o \in Submissions(gen.count, r, t) :
        Submitted(o) /\ HostBecomes(GenReschedule(g, o.events, t,
                                                  SubmissionLatency))
  BY <1>1 DEF GenSubmits, Bio
<1>4. HostState(o.events, o.jobs, o.busy, o.completions, o.last, t, "idle")
  BY <1>0, <1>2, SubmissionKeeps
<1>5. PICK q : q = o.events
  OBVIOUS
<1>6. InOrder(q) /\ NotBefore(q, t)
  BY <1>4, <1>5 DEF HostState, Device0
<1>7. PICK u : u = GenReschedule(g, q, t, SubmissionLatency)
  OBVIOUS
<1>8. SubmissionLatency \in Nat
  BY StackAssumption
<1>9. Adjusts(q, u, t)
  BY <1>0, <1>2, <1>6, <1>7, <1>8, GenRescheduleLemma
<1>10. HostBecomes(u)
  BY <1>3, <1>5, <1>7
<1> QED BY <1>2, <1>3, <1>5, <1>9, <1>10, SubmittedKeeps

(***************************************************************************)
(* begin of the request generator, and its submit event.                   *)
(***************************************************************************)
LEMMA BeginGeneratedKeeps ==
  ASSUME HostInv, BeginGenerated
  PROVE  Kept
<1>0. /\ LoadTypes /\ IsGenerator(gen)
      /\ BeginsAtZero(eventQueue) /\ UNCHANGED <<numCores, pc>>
      /\ pc = "idle" /\ eventQueue # <<>> /\ load.kind = "generator"
  BY DEF HostInv, HostState, BeginGenerated, Fires
<1>2. PICK h : h = Head(eventQueue)
  OBVIOUS
<1>3. PICK r : r = Tail(eventQueue)
  OBVIOUS
<1>4. h.eid = BeginEvent /\ h.eid < 0 /\ simTick' = h.tick
  BY <1>2 DEF BeginGenerated, Fires, BeginEvent
<1>5. /\ HostState(r, jobs, busy, completionQueue, lastScheduled, h.tick,
                   "idle")
      /\ \A e \in Int : MayMove(eventQueue, r, h.tick, e)
      /\ ScheduledAt(eventQueue, h.eid, h.tick)
  BY <1>0, <1>2, <1>3, <1>4, HostEventFires
<1>6. h.tick = 0 /\ h.tick \in Nat
  BY <1>0, <1>4, <1>5 DEF BeginsAtZero, HostState
<1>7. CASE Invalid(load)
  <2>1. /\ gen' = [gen EXCEPT !.status = "panic"] /\ eventQueue' = r
        /\ UNCHANGED <<jobs, busy, completionQueue, lastScheduled, load>>
    BY <1>3, <1>7 DEF BeginGenerated
  <2>2. IsGenerator(gen') /\ LoadTypes'
    BY <1>0, <2>1, LoadUnchanged DEF IsGenerator
  <2>3. InOrder(eventQueue') /\ NotBefore(eventQueue', h.tick)
    BY <1>5, <2>1 DEF HostState, Device0
  <2>4. SameForDevice(r, eventQueue')
    BY <2>1 DEF SameForDevice
  <2>5. NoneOvertaken(eventQueue, eventQueue')
    <3>1. MayMove(eventQueue, r, h.tick, SubmitEvent)
      BY <1>5 DEF SubmitEvent
    <3> QED BY <2>1, <3>1 DEF MayMove
  <2> QED BY <1>0, <1>4, <1>5, <2>1, <2>2, <2>3, <2>4, <2>5, HostStepKeeps
<1>8. CASE ~Invalid(load)
  <2>1. load' = Initialized(load) /\ GenSubmits(Initialized(load), 0)
    BY <1>8 DEF BeginGenerated
  <2>2. LoadTypes'
    <3>1. PICK a, b, c, d :
            load' = [load EXCEPT !.blocksize = a, !.blockalign = b,
                                 !.offset = c, !.size = d]
      BY <2>1 DEF Initialized
    <3>2. load = [kind |-> load.kind, type |-> load.type,
                  depth |-> load.depth, ioSize |-> load.ioSize,
                  runtime |-> load.runtime, blocksize |-> load.blocksize,
                  blockalign |-> load.blockalign, offset |-> load.offset,
                  size |-> load.size, period |-> load.period]
      BY <1>0 DEF LoadTypes
    <3>3. load' = [kind |-> load.kind, type |-> load.type,
                   depth |-> load.depth, ioSize |-> load.ioSize,
                   runtime |-> load.runtime, blocksize |-> a,
                   blockalign |-> b, offset |-> c, size |-> d,
                   period |-> load.period]
      BY <3>1, <3>2
    <3>4. load.period \in Nat
      BY <1>0 DEF LoadTypes
    <3>5. load'.kind = "generator" /\ load'.period \in Nat
      BY <1>0, <3>3, <3>4
    <3>6. load' = [kind |-> load'.kind, type |-> load'.type,
                   depth |-> load'.depth, ioSize |-> load'.ioSize,
                   runtime |-> load'.runtime, blocksize |-> load'.blocksize,
                   blockalign |-> load'.blockalign, offset |-> load'.offset,
                   size |-> load'.size, period |-> load'.period]
      BY <3>3
    <3> QED BY <3>5, <3>6 DEF LoadTypes
  <2> QED BY <1>0, <1>3, <1>4, <1>5, <1>6, <2>1, <2>2, GenSubmitsKeeps
<1> QED BY <1>7, <1>8

(***************************************************************************)
(* The request generator submits.                                          *)
(***************************************************************************)
LEMMA SubmitGeneratedKeeps ==
  ASSUME HostInv, SubmitGenerated
  PROVE  Kept
<1>0. /\ LoadTypes /\ UNCHANGED <<numCores, pc, load>>
      /\ pc = "idle" /\ eventQueue # <<>>
  BY DEF HostInv, SubmitGenerated, Fires
<1>1. LoadTypes'
  BY <1>0, LoadUnchanged
<1>2. PICK h : h = Head(eventQueue)
  OBVIOUS
<1>3. PICK r : r = Tail(eventQueue)
  OBVIOUS
<1>4. h.eid < 0 /\ simTick' = h.tick /\ GenSubmits(load, h.tick)
  BY <1>2 DEF SubmitGenerated, Fires, SubmitEvent
<1>5. /\ HostState(r, jobs, busy, completionQueue, lastScheduled, h.tick,
                   "idle")
      /\ \A e \in Int : MayMove(eventQueue, r, h.tick, e)
  BY <1>0, <1>2, <1>3, <1>4, HostEventFires
<1> QED BY <1>0, <1>1, <1>3, <1>4, <1>5, GenSubmitsKeeps

(***************************************************************************)
(* The statistics of main.                                                 *)
(***************************************************************************)
LEMMA StatisticsKeeps ==
  ASSUME HostInv, Statistics
  PROVE  Kept
<1>0. /\ LoadTypes /\ IsGenerator(gen) /\ load.period \in Nat
      /\ UNCHANGED <<numCores, jobs, busy, completionQueue, lastScheduled, pc,
                     load, gen>>
      /\ pc = "idle" /\ eventQueue # <<>>
  BY DEF HostInv, LoadTypes, Statistics, Fires
<1>1. LoadTypes' /\ IsGenerator(gen')
  BY <1>0, LoadUnchanged
<1>2. PICK h : h = Head(eventQueue)
  OBVIOUS
<1>3. PICK r : r = Tail(eventQueue)
  OBVIOUS
<1>4. h.eid < 0 /\ simTick' = h.tick
      /\ eventQueue' = insertEvent(r, StatEvent, h.tick + load.period)
  BY <1>2, <1>3 DEF Statistics, Fires, StatEvent
<1>5. /\ HostState(r, jobs, busy, completionQueue, lastScheduled, h.tick,
                   "idle")
      /\ \A e \in Int : MayMove(eventQueue, r, h.tick, e)
  BY <1>0, <1>2, <1>3, <1>4, HostEventFires
<1>6. InOrder(r) /\ NotBefore(r, h.tick) /\ h.tick \in Nat
  BY <1>5 DEF HostState, Device0
<1>7. /\ StatEvent \in Int /\ StatEvent < BeginEvent
      /\ h.tick + load.period \in Nat /\ h.tick <= h.tick + load.period
  BY <1>0, <1>6 DEF StatEvent, BeginEvent
<1>8. PICK s : s = insertEvent(r, StatEvent, h.tick + load.period)
  OBVIOUS
<1>9. InOrder(s) /\ OthersKept(r, s, StatEvent) /\ NotBefore(s, h.tick)
  BY <1>6, <1>7, <1>8, InsertEventLemma
<1>10. SameForDevice(r, s)
  BY <1>7, <1>9, OthersKeptForDevice
<1>11. NoneOvertaken(eventQueue, s)
  <2>1. MayMove(eventQueue, r, h.tick, StatEvent)
    BY <1>5, <1>7
  <2> QED BY <1>6, <1>7, <1>8, <2>1, MoveOvertakesNone
<1> QED BY <1>0, <1>1, <1>4, <1>5, <1>8, <1>9, <1>10, <1>11, HostStepKeeps

(***************************************************************************)
(* A request that is due is taken off the completion queue: it is one that *)
(* is finished at this very tick, and the others wait on.                  *)
(***************************************************************************)
LEMMA CompletedOnTime ==
  ASSUME HostInv, pc = "completing", NEW x \in Tops(completionQueue), Due(x),
         NEW cq, cq = completionQueue \ {x}
  PROVE  /\ HostState(eventQueue, jobs, busy, cq, lastScheduled, simTick, pc)
         /\ x.finishedAt = simTick
<1>1. HostState(eventQueue, jobs, busy, completionQueue, lastScheduled,
                simTick, pc)
  BY DEF HostInv
<1>2. x \in completionQueue
  BY DEF Tops
<1>3. /\ Completing(eventQueue, completionQueue, lastScheduled, simTick)
      /\ Ticks(completionQueue) /\ simTick \in Nat
  BY <1>1 DEF HostState, Mode, Device0
<1>4. x.finishedAt = simTick
  BY <1>2, <1>3 DEF Completing, Ticks, Due
<1>5. Completing(eventQueue, cq, lastScheduled, simTick) /\ Ticks(cq)
  BY <1>3 DEF Completing, Ticks
<1> QED BY <1>1, <1>4, <1>5 DEF HostState, Mode, Device0

(***************************************************************************)
(* A request is completed, up to the generator.                            *)
(***************************************************************************)
LEMMA CompleteIOKeeps ==
  ASSUME HostInv, CompleteIO
  PROVE  Kept
<1>0. /\ numCores \in Nat /\ LoadTypes /\ IsGenerator(gen)
      /\ pc = "completing"
      /\ UNCHANGED <<numCores, simTick, jobs, busy, lastScheduled, pc, load>>
  BY DEF HostInv, CompleteIO
<1>1. PICK x \in Tops(completionQueue) :
        Due(x) /\ completionQueue' = completionQueue \ {x}
  BY DEF CompleteIO
<1>2. PICK cq : cq = completionQueue \ {x}
  OBVIOUS
<1>3. /\ HostState(eventQueue, jobs, busy, cq, lastScheduled, simTick, pc)
      /\ x.finishedAt = simTick
  BY <1>0, <1>1, <1>2, CompletedOnTime
<1>4. InOrder(eventQueue) /\ NotBefore(eventQueue, simTick) /\ simTick \in Nat
  BY <1>3 DEF HostState, Device0
<1>5. PICK u : u = IF load.kind = "trace"
                   THEN TraceCallback(gen, eventQueue, simTick)
                   ELSE GenCallback(gen, eventQueue, simTick)
  OBVIOUS
<1>6. Adjusts(eventQueue, u, simTick)
  <2>1. CASE load.kind = "trace"
    <3>1. u = TraceCallback(gen, eventQueue, simTick)
      BY <1>5, <2>1
    <3> QED BY <1>0, <1>4, <3>1, TraceCallbackLemma
  <2>2. CASE load.kind # "trace"
    <3>1. u = GenCallback(gen, eventQueue, simTick)
      BY <1>5, <2>2
    <3> QED BY <1>0, <1>4, <3>1, GenCallbackLemma
  <2> QED BY <2>1, <2>2
<1>7. gen' = u[1] /\ eventQueue' = u[2]
  BY <1>5 DEF CompleteIO, HostBecomes
<1>8. /\ IsGenerator(u[1]) /\ InOrder(u[2]) /\ NotBefore(u[2], simTick)
      /\ SameForDevice(eventQueue, u[2])
      /\ \A p : MayMove(p, eventQueue, simTick, SubmitEvent) =>
                NoneOvertaken(p, u[2])
  BY <1>6 DEF Adjusts, Host
<1>9. HostState(u[2], jobs, busy, cq, lastScheduled, simTick, pc)
  BY <1>0, <1>3, <1>8, SameStateForDevice
<1>10. HostInv'
  BY <1>0, <1>1, <1>2, <1>7, <1>8, <1>9, NextState, LoadUnchanged
<1>11. NoneOvertaken(eventQueue, eventQueue')
  <2>1. SubmitEvent \in Int
    BY DEF SubmitEvent
  <2>2. MayMove(eventQueue, eventQueue, simTick, SubmitEvent)
    BY <1>4, <2>1, OwnEntries
  <2> QED BY <1>7, <1>8, <2>2
<1>12. \A y \in completionQueue \ completionQueue' : simTick' = y.finishedAt
  BY <1>0, <1>1, <1>3
<1> QED BY <1>10, <1>11, <1>12 DEF Kept

(***************************************************************************)
(* The same with a driver of its own.                                      *)
(***************************************************************************)
LEMMA CompleteTopKeeps ==
  ASSUME HostInv, CompleteTop, Idle
  PROVE  Kept
<1>0. /\ numCores \in Nat /\ LoadTypes /\ IsGenerator(gen)
      /\ pc = "completing" /\ InOrder(eventQueue)
      /\ UNCHANGED <<numCores, simTick, eventQueue, jobs, busy, lastScheduled,
                     pc, load, gen>>
  BY DEF HostInv, HostState, Device0, CompleteTop, Idle
<1>1. PICK x \in Tops(completionQueue) :
        Due(x) /\ completionQueue' = completionQueue \ {x}
  BY DEF CompleteTop
<1>2. PICK cq : cq = completionQueue \ {x}
  OBVIOUS
<1>3. /\ HostState(eventQueue, jobs, busy, cq, lastScheduled, simTick, pc)
      /\ x.finishedAt = simTick
  BY <1>0, <1>1, <1>2, CompletedOnTime
<1>4. HostInv'
  BY <1>0, <1>1, <1>2, <1>3, NextState, LoadUnchanged
<1>5. NoneOvertaken(eventQueue, eventQueue')
  BY <1>0, OwnEntries
<1> QED BY <1>0, <1>1, <1>3, <1>4, <1>5 DEF Kept

(***************************************************************************)
(* jobDone: the handler of the first job runs, and the core takes the next *)
(* one or is free.                                                         *)
(***************************************************************************)
LEMMA NextJobLemma ==
  ASSUME NEW q, InOrder(q), NEW now \in Nat, NotBefore(q, now),
         NEW c \in Core, numCores \in Nat, \A u \in Nat : ~ScheduledAt(q, c, u),
         now = Head(eventQueue).tick, NEW n \in NextJob(c, q),
         NEW p, MayMove(p, q, now, c)
  PROVE  /\ InOrder(n[1]) /\ NotBefore(n[1], now) /\ OthersKept(q, n[1], c)
         /\ n[2] \in BOOLEAN /\ (n[2] <=> Len(jobs[c]) > 1)
         /\ n[2] <=> \E u \in Nat : ScheduledAt(n[1], c, u)
         /\ NoneOvertaken(p, n[1])
<1>0. c \in Int
  BY DEF Core
<1>1. CASE Len(jobs[c]) > 1
  <2>1. PICK d \in CoreLatency : n = <<insertEvent(q, c, now + d), TRUE>>
    BY <1>1 DEF NextJob
  <2>2. d \in Nat /\ now + d \in Nat /\ now <= now + d
    BY HILAssumption
  <2>3. PICK r : r = insertEvent(q, c, now + d)
    OBVIOUS
  <2>4. /\ InOrder(r) /\ OthersKept(q, r, c) /\ NotBefore(r, now)
        /\ ScheduledAt(r, c, now + d)
    BY <1>0, <2>2, <2>3, InsertEventLemma
  <2>5. NoneOvertaken(p, r)
    BY <1>0, <2>2, <2>3, MoveOvertakesNone
  <2>6. n[1] = r /\ n[2] = TRUE
    BY <2>1, <2>3
  <2> QED BY <1>1, <2>2, <2>4, <2>5, <2>6
<1>2. CASE ~(Len(jobs[c]) > 1)
  <2>1. n = <<q, FALSE>>
    BY <1>2 DEF NextJob
  <2>2. n[1] = q /\ n[2] = FALSE
    BY <2>1
  <2>3. OthersKept(q, q, c)
    BY DEF OthersKept
  <2>4. NoneOvertaken(p, q)
    BY DEF MayMove
  <2> QED BY <1>2, <2>2, <2>3, <2>4
<1> QED BY <1>1, <1>2

(***************************************************************************)
(* A core is done with a job: the request is executed and the next job     *)
(* started.                                                                *)
(***************************************************************************)
LEMMA JobDoneKeeps ==
  ASSUME HostInv, NEW c \in Core, jobDone(c), Idle
  PROVE  Kept
<1>0. /\ numCores \in Nat /\ simTick \in Nat /\ LoadTypes /\ IsGenerator(gen)
      /\ InOrder(eventQueue) /\ NotBefore(eventQueue, simTick)
      /\ CoreTypes(jobs, busy) /\ CoresAwake(eventQueue, jobs, busy)
      /\ Ticks(completionQueue) /\ lastScheduled \in Nat
      /\ Armed(eventQueue, completionQueue, lastScheduled, simTick)
      /\ BeginsAtZero(eventQueue) /\ pc = "idle" /\ eventQueue # <<>>
      /\ UNCHANGED <<numCores, pc, load, gen>>
  BY DEF HostInv, HostState, Device0, Mode, jobDone, Idle
<1>1. PICK h : h = Head(eventQueue)
  OBVIOUS
<1>2. PICK r : r = Tail(eventQueue)
  OBVIOUS
<1>3. h.eid = c /\ simTick' = h.tick /\ c \in Nat /\ c # Completion /\ c \in Int
      /\ Completion \in Int /\ BeginEvent \in Int /\ c # BeginEvent
      /\ Completion # BeginEvent
  BY <1>0, <1>1 DEF jobDone, Core, Completion, BeginEvent
<1>4. /\ h.tick \in Nat
      /\ ScheduledAt(eventQueue, c, h.tick) /\ simTick <= h.tick
      /\ InOrder(r) /\ NotBefore(r, h.tick) /\ OthersKept(eventQueue, r, c)
      /\ \A u : ~ScheduledAt(r, c, u)
  BY <1>0, <1>1, <1>2, <1>3, NextEventLemma
<1>5. \A e \in Int : MayMove(eventQueue, r, h.tick, e)
  BY <1>0, <1>1, <1>2, FrontTaken
<1>6. Armed(r, completionQueue, lastScheduled, h.tick)
  <2>1. lastScheduled <= simTick => lastScheduled <= h.tick
    BY <1>0, <1>4
  <2> QED BY <1>0, <1>3, <1>4, <2>1 DEF Armed, OthersKept
<1>7. PICK e \in Execute(Head(jobs[c]), r, h.tick) :
        /\ Executed(Head(jobs[c]), e)
        /\ \E n \in NextJob(c, e.events) :
             eventQueue' = n[1] /\ busy' = [busy EXCEPT ![c] = n[2]]
  BY <1>1, <1>2 DEF jobDone
<1>8. PICK n \in NextJob(c, e.events) :
        eventQueue' = n[1] /\ busy' = [busy EXCEPT ![c] = n[2]]
  BY <1>7
<1>9. /\ InOrder(e.events) /\ NotBefore(e.events, h.tick)
      /\ OthersKept(r, e.events, Completion)
      /\ Ticks(e.completions) /\ e.last \in Nat
      /\ Armed(e.events, e.completions, e.last, h.tick)
      /\ completionQueue \subseteq e.completions
      /\ \A p : MayMove(p, r, h.tick, Completion)
                => NoneOvertaken(p, e.events) /\ Fresh(p, e.events, h.tick)
  <2>1. PICK a : a = Head(jobs[c])
    OBVIOUS
  <2>2. e \in Execute(a, r, h.tick)
    BY <2>1
  <2> QED BY ONLY <1>0, <1>4, <1>6, <2>2, ExecuteLemma
<1>10. \A u \in Nat : ~ScheduledAt(e.events, c, u)
  BY <1>3, <1>4, <1>9 DEF OthersKept
<1>11. MayMove(eventQueue, e.events, h.tick, c)
  <2>1. \A u \in Nat : Listed(eventQueue, Entry(c, u)) => u = h.tick
    <3> SUFFICES ASSUME NEW u \in Nat, Listed(eventQueue, Entry(c, u))
                 PROVE  u = h.tick
      OBVIOUS
    <3>1. PICK i \in 1 .. Len(eventQueue) : eventQueue[i] = Entry(c, u)
      BY DEF Listed
    <3>2. eventQueue[i].eid = c /\ eventQueue[i].tick = u
      BY <3>1 DEF Entry
    <3>3. PICK k \in 1 .. Len(eventQueue) :
            eventQueue[k].eid = c /\ eventQueue[k].tick = h.tick
      BY <1>0, <1>3, <1>4, PlacesLemma
    <3>4. i = k
      BY <1>0, <3>2, <3>3 DEF InOrder, OncePerEvent
    <3> QED BY <3>2, <3>3, <3>4
  <2>2. NoneOvertaken(eventQueue, e.events)
        /\ Fresh(eventQueue, e.events, h.tick)
    BY <1>3, <1>5, <1>9
  <2> QED BY <2>1, <2>2 DEF MayMove
<1>12. PICK s : s = e.events
  OBVIOUS
<1>13. /\ InOrder(n[1]) /\ NotBefore(n[1], h.tick) /\ OthersKept(s, n[1], c)
       /\ n[2] \in BOOLEAN /\ (n[2] <=> Len(jobs[c]) > 1)
       /\ n[2] <=> \E u \in Nat : ScheduledAt(n[1], c, u)
       /\ NoneOvertaken(eventQueue, n[1])
  BY <1>0, <1>1, <1>4, <1>8, <1>9, <1>10, <1>11, <1>12, NextJobLemma
<1>14. PICK j : j = [jobs EXCEPT ![c] = Tail(@)]
  OBVIOUS
<1>15. PICK b : b = [busy EXCEPT ![c] = n[2]]
  OBVIOUS
<1>16. /\ jobs' = j /\ busy' = b /\ eventQueue' = n[1]
       /\ completionQueue' = e.completions /\ lastScheduled' = e.last
  BY <1>7, <1>8, <1>14, <1>15 DEF jobDone, Executed
<1>17. jobs[c] # <<>> /\ jobs[c] \in Seq(Requests \cup Nat)
  BY <1>0, <1>4 DEF CoresAwake, CoreTypes
<1>18. /\ Tail(jobs[c]) \in Seq(Requests \cup Nat)
       /\ Tail(jobs[c]) # <<>> <=> Len(jobs[c]) > 1
  <2>1. PICK a \in Seq(Requests \cup Nat) : a = jobs[c]
    BY <1>17
  <2>2. PICK d : d = Tail(a)
    OBVIOUS
  <2>3. a # <<>> /\ Len(a) \in Nat /\ Len(a) # 0
    BY <1>17, <2>1
  <2>4. d \in Seq(Requests \cup Nat) /\ Len(d) = Len(a) - 1
    BY <2>2, <2>3, HeadTailProperties
  <2>5. d = <<>> <=> Len(d) = 0
    BY <2>4, SMTT(30)
  <2> QED BY <2>1, <2>2, <2>3, <2>4, <2>5
<1>19. /\ CoreTypes(j, b) /\ j[c] = Tail(jobs[c]) /\ b[c] = n[2]
       /\ \A k \in Core \ {c} : b[k] = busy[k] /\ j[k] = jobs[k]
  <2>1. jobs \in [Core -> Seq(Requests \cup Nat)] /\ busy \in [Core -> BOOLEAN]
    BY <1>0 DEF CoreTypes
  <2>2. /\ j \in [Core -> Seq(Requests \cup Nat)] /\ j[c] = Tail(jobs[c])
        /\ \A k \in Core \ {c} : j[k] = jobs[k]
    BY <1>14, <1>18, <2>1
  <2>3. /\ b \in [Core -> BOOLEAN] /\ b[c] = n[2]
        /\ \A k \in Core \ {c} : b[k] = busy[k]
    <3>1. PICK v \in BOOLEAN : v = n[2]
      BY ONLY <1>13, Zenon
    <3>2. b = [busy EXCEPT ![c] = v]
      BY ONLY <1>15, <3>1
    <3>3. /\ b \in [Core -> BOOLEAN] /\ b[c] = v
          /\ \A k \in Core \ {c} : b[k] = busy[k]
      BY ONLY <2>1, <3>2, c \in Core, Zenon
    <3> QED BY ONLY <3>1, <3>3
  <2> QED BY <2>2, <2>3 DEF CoreTypes
<1>20. \A f \in Int, u \in Nat : f # c /\ f # Completion =>
         (ScheduledAt(n[1], f, u) <=> ScheduledAt(eventQueue, f, u))
  BY <1>4, <1>9, <1>12, <1>13 DEF OthersKept
<1>21. CoresAwake(n[1], j, b)
  <2> SUFFICES ASSUME NEW k \in Core
               PROVE  /\ b[k] <=> j[k] # <<>>
                      /\ b[k] <=> \E u \in Nat : ScheduledAt(n[1], k, u)
    BY DEF CoresAwake
  <2>1. k \in Int /\ k # Completion
    BY <1>0 DEF Core, Completion
  <2>2. CASE k = c
    BY <1>13, <1>18, <1>19, <2>2
  <2>3. CASE k # c
    <3>1. /\ b[k] = busy[k] /\ j[k] = jobs[k]
          /\ \A u \in Nat : ScheduledAt(n[1], k, u)
                            <=> ScheduledAt(eventQueue, k, u)
      BY <1>19, <1>20, <2>1, <2>3
    <3> QED BY <1>0, <3>1 DEF CoresAwake
  <2> QED BY <2>2, <2>3
<1>22. Armed(n[1], e.completions, e.last, h.tick)
  BY <1>3, <1>9, <1>12, <1>13 DEF Armed, OthersKept
<1>23. BeginsAtZero(n[1])
  BY <1>0, <1>3, <1>20 DEF BeginsAtZero
<1>24. HostState(n[1], j, b, e.completions, e.last, h.tick, "idle")
  BY <1>4, <1>9, <1>13, <1>19, <1>21, <1>22, <1>23 DEF HostState, Device0, Mode
<1>25. HostInv'
  BY <1>0, <1>3, <1>16, <1>24, NextState, LoadUnchanged
<1> QED BY <1>9, <1>13, <1>16, <1>25 DEF Kept

(***************************************************************************)
(* completion() starts: the event was scheduled for the first request.     *)
(***************************************************************************)
LEMMA StartCompletionKeeps ==
  ASSUME HostInv, StartCompletion, Idle
  PROVE  Kept
<1>0. /\ numCores \in Nat /\ simTick \in Nat /\ LoadTypes /\ IsGenerator(gen)
      /\ InOrder(eventQueue) /\ NotBefore(eventQueue, simTick)
      /\ CoreTypes(jobs, busy) /\ CoresAwake(eventQueue, jobs, busy)
      /\ Ticks(completionQueue) /\ lastScheduled \in Nat
      /\ Armed(eventQueue, completionQueue, lastScheduled, simTick)
      /\ BeginsAtZero(eventQueue) /\ pc = "idle" /\ eventQueue # <<>>
      /\ pc' = "completing"
      /\ UNCHANGED <<numCores, jobs, busy, completionQueue, lastScheduled,
                     load, gen>>
  BY DEF HostInv, HostState, Device0, Mode, StartCompletion, Idle
<1>1. PICK h : h = Head(eventQueue)
  OBVIOUS
<1>2. PICK r : r = Tail(eventQueue)
  OBVIOUS
<1>3. h.eid = Completion /\ simTick' = h.tick /\ eventQueue' = r
      /\ Completion \in Int /\ BeginEvent \in Int /\ Completion # BeginEvent
  BY <1>1, <1>2 DEF StartCompletion, Completion, BeginEvent
<1>4. /\ h.tick \in Nat
      /\ ScheduledAt(eventQueue, Completion, h.tick) /\ simTick <= h.tick
      /\ InOrder(r) /\ NotBefore(r, h.tick)
      /\ OthersKept(eventQueue, r, Completion)
      /\ \A u : ~ScheduledAt(r, Completion, u)
  BY <1>0, <1>1, <1>2, <1>3, NextEventLemma
<1>5. Completing(r, completionQueue, lastScheduled, h.tick)
  BY <1>0, <1>4 DEF Armed, Completing
<1>6. CoresAwake(r, jobs, busy)
  <2>1. \A c \in Core : c \in Int /\ c # Completion
    BY <1>0 DEF Core, Completion
  <2> QED BY <1>0, <1>4, <2>1 DEF CoresAwake, OthersKept
<1>7. BeginsAtZero(r)
  BY <1>0, <1>3, <1>4 DEF BeginsAtZero, OthersKept
<1>8. HostState(r, jobs, busy, completionQueue, lastScheduled, h.tick,
                "completing")
  BY <1>0, <1>4, <1>5, <1>6, <1>7 DEF HostState, Device0, Mode
<1>9. HostInv'
  BY <1>0, <1>3, <1>8, NextState, LoadUnchanged
<1>10. NoneOvertaken(eventQueue, eventQueue')
  BY <1>0, <1>2, <1>3, FrontTaken
<1> QED BY <1>0, <1>9, <1>10 DEF Kept

(***************************************************************************)
(* completion() ends: nothing is due, and the event is scheduled anew.     *)
(***************************************************************************)
LEMMA EndCompletionKeeps ==
  ASSUME HostInv, EndCompletion, Idle
  PROVE  Kept
<1>0. /\ numCores \in Nat /\ simTick \in Nat /\ LoadTypes /\ IsGenerator(gen)
      /\ InOrder(eventQueue) /\ NotBefore(eventQueue, simTick)
      /\ CoreTypes(jobs, busy) /\ CoresAwake(eventQueue, jobs, busy)
      /\ Ticks(completionQueue) /\ lastScheduled \in Nat
      /\ Completing(eventQueue, completionQueue, lastScheduled, simTick)
      /\ BeginsAtZero(eventQueue)
      /\ pc' = "idle"
      /\ UNCHANGED <<numCores, simTick, jobs, busy, completionQueue, load, gen>>
  BY DEF HostInv, HostState, Device0, Mode, EndCompletion, Idle
<1>1. PICK u : u = updateCompletion(eventQueue, completionQueue)
  OBVIOUS
<1>2. eventQueue' = u[1] /\ lastScheduled' = u[2]
  BY <1>1 DEF EndCompletion
<1>3. \A x \in completionQueue : simTick < x.finishedAt
  BY <1>0 DEF EndCompletion, Due, Ticks
<1>4. /\ InOrder(u[1]) /\ NotBefore(u[1], simTick) /\ u[2] \in Nat
      /\ OthersKept(eventQueue, u[1], Completion)
      /\ Armed(u[1], completionQueue, u[2], simTick)
      /\ \A p : MayMove(p, eventQueue, simTick, Completion)
                => NoneOvertaken(p, u[1]) /\ Fresh(p, u[1], simTick)
  BY <1>0, <1>1, <1>3, UpdateLemma
<1>5. CoresAwake(u[1], jobs, busy)
  <2>1. \A c \in Core : c \in Int /\ c # Completion
    BY <1>0 DEF Core, Completion
  <2> QED BY <1>0, <1>4, <2>1 DEF CoresAwake, OthersKept
<1>6. BeginsAtZero(u[1])
  BY <1>0, <1>4 DEF BeginsAtZero, OthersKept, BeginEvent, Completion
<1>7. HostState(u[1], jobs, busy, completionQueue, u[2], simTick, "idle")
  BY <1>0, <1>4, <1>5, <1>6 DEF HostState, Device0, Mode
<1>8. HostInv'
  BY <1>0, <1>2, <1>7, NextState, LoadUnchanged
<1>9. NoneOvertaken(eventQueue, eventQueue')
  <2>1. MayMove(eventQueue, eventQueue, simTick, Completion)
    BY <1>0, OwnEntries DEF Completion
  <2> QED BY <1>2, <1>4, <2>1
<1> QED BY <1>0, <1>8, <1>9 DEF Kept

(***************************************************************************)
(* The events of another driver.                                           *)
(***************************************************************************)
LEMMA DriverFiresKeeps ==
  ASSUME HostInv, NEW e \in DriverEvents, DriverFires(e)
  PROVE  Kept
<1>0. /\ LoadTypes /\ IsGenerator(gen)
      /\ UNCHANGED <<numCores, jobs, busy, completionQueue, lastScheduled, pc,
                     load, gen>>
      /\ pc = "idle" /\ eventQueue # <<>>
  BY DEF HostInv, DriverFires, Fires, Device, Idle
<1>1. LoadTypes' /\ IsGenerator(gen')
  BY <1>0, LoadUnchanged
<1>2. PICK h : h = Head(eventQueue)
  OBVIOUS
<1>3. PICK r : r = Tail(eventQueue)
  OBVIOUS
<1>4. h.eid < 0 /\ simTick' = h.tick /\ eventQueue' = r
  BY <1>2, <1>3 DEF DriverFires, Fires, DriverEvents
<1>5. /\ HostState(r, jobs, busy, completionQueue, lastScheduled, h.tick,
                   "idle")
      /\ \A f \in Int : MayMove(eventQueue, r, h.tick, f)
  BY <1>0, <1>2, <1>3, <1>4, HostEventFires
<1>6. InOrder(r) /\ NotBefore(r, h.tick)
  BY <1>5 DEF HostState, Device0
<1>7. SameForDevice(r, r)
  BY DEF SameForDevice
<1>8. NoneOvertaken(eventQueue, r)
  <2>1. MayMove(eventQueue, r, h.tick, SubmitEvent)
    BY <1>5 DEF SubmitEvent
  <2> QED BY <2>1 DEF MayMove
<1> QED BY <1>0, <1>1, <1>4, <1>5, <1>6, <1>7, <1>8, HostStepKeeps

(***************************************************************************)
(* An arbitrary driver moves and removes its events.                       *)
(***************************************************************************)
LEMMA DriverSchedulesKeeps ==
  ASSUME HostInv, NEW e \in DriverEvents, NEW t \in 0 .. MaxTick,
         DriverSchedules(e, t)
  PROVE  Kept
<1>0. /\ LoadTypes /\ IsGenerator(gen)
      /\ UNCHANGED <<numCores, simTick, jobs, busy, completionQueue,
                     lastScheduled, pc, load>>
      /\ HostState(eventQueue, jobs, busy, completionQueue, lastScheduled,
                   simTick, pc)
      /\ gen' = [gen EXCEPT !.count = @ + 1]
      /\ eventQueue' = insertEvent(eventQueue, e, Clamped(t, simTick))
  BY DEF HostInv, DriverSchedules, Device
<1>1. LoadTypes' /\ IsGenerator(gen')
  BY <1>0, LoadUnchanged DEF IsGenerator
<1>2. InOrder(eventQueue) /\ NotBefore(eventQueue, simTick) /\ simTick \in Nat
  BY <1>0 DEF HostState, Device0
<1>3. e \in Int /\ e < BeginEvent
  BY DEF DriverEvents, BeginEvent
<1>4. PICK u : u = Clamped(t, simTick)
  OBVIOUS
<1>5. u \in Nat /\ simTick <= u
  BY <1>2, <1>4, HILAssumption DEF Clamped
<1>6. PICK s : s = insertEvent(eventQueue, e, u)
  OBVIOUS
<1>7. InOrder(s) /\ OthersKept(eventQueue, s, e) /\ NotBefore(s, simTick)
  BY <1>2, <1>3, <1>5, <1>6, InsertEventLemma
<1>8. SameForDevice(eventQueue, s)
  BY <1>3, <1>7, OthersKeptForDevice
<1>9. NoneOvertaken(eventQueue, s)
  <2>1. MayMove(eventQueue, eventQueue, simTick, e)
    BY <1>2, <1>3, OwnEntries
  <2> QED BY <1>2, <1>3, <1>5, <1>6, <2>1, MoveOvertakesNone
<1> QED BY <1>0, <1>1, <1>4, <1>6, <1>7, <1>8, <1>9, HostStepKeeps

LEMMA DriverDeschedulesKeeps ==
  ASSUME HostInv, NEW e \in DriverEvents, DriverDeschedules(e)
  PROVE  Kept
<1>0. /\ LoadTypes /\ IsGenerator(gen)
      /\ UNCHANGED <<numCores, simTick, jobs, busy, completionQueue,
                     lastScheduled, pc, load, gen>>
      /\ HostState(eventQueue, jobs, busy, completionQueue, lastScheduled,
                   simTick, pc)
      /\ eventQueue' = removeEvent(eventQueue, e)
  BY DEF HostInv, DriverDeschedules, Device, Idle
<1>1. LoadTypes' /\ IsGenerator(gen')
  BY <1>0, LoadUnchanged
<1>2. InOrder(eventQueue) /\ NotBefore(eventQueue, simTick)
  BY <1>0 DEF HostState, Device0
<1>3. e \in Int /\ e < BeginEvent
  BY DEF DriverEvents, BeginEvent
<1>4. PICK s : s = removeEvent(eventQueue, e)
  OBVIOUS
<1>5. /\ InOrder(s) /\ OthersKept(eventQueue, s, e) /\ NotBefore(s, simTick)
      /\ \A p : NoneOvertaken(p, eventQueue) => NoneOvertaken(p, s)
  BY <1>2, <1>3, <1>4, RemoveEventLemma
<1>6. SameForDevice(eventQueue, s)
  BY <1>3, <1>5, OthersKeptForDevice
<1>7. NoneOvertaken(eventQueue, s)
  BY <1>2, <1>5, OwnEntries
<1> QED BY <1>0, <1>1, <1>4, <1>5, <1>6, <1>7, HostStepKeeps

(***************************************************************************)
(* Another driver submits, between events or in a callback.                *)
(***************************************************************************)
LEMMA SubmitKeeps ==
  ASSUME HostInv, NEW t,
         HostState(eventQueue, jobs, busy, completionQueue, lastScheduled, t,
                   pc),
         pc # "idle" => \E x \in completionQueue : x.finishedAt <= t,
         NEW r \in Requests, Submit(r, t), simTick' = t,
         UNCHANGED <<numCores, pc, load, gen>>
  PROVE  Kept
<1>0. numCores \in Nat /\ LoadTypes /\ IsGenerator(gen)
  BY DEF HostInv
<1>1. LoadTypes' /\ IsGenerator(gen')
  BY <1>0, LoadUnchanged
<1>2. PICK o \in Submissions(r, eventQueue, t) :
        Submitted(o) /\ eventQueue' = o.events
  BY DEF Submit
<1>3. r \in Requests \cup Nat
  OBVIOUS
<1>4. /\ HostState(o.events, o.jobs, o.busy, o.completions, o.last, t, pc)
      /\ completionQueue \subseteq o.completions
      /\ \A p : /\ 0 \notin CoreLatency
                /\ \A e \in Int : MayMove(p, eventQueue, t, e)
                => /\ NoneOvertaken(p, o.events)
                   /\ MayMove(p, o.events, t, SubmitEvent)
  BY <1>0, <1>3, SubmissionKeeps
<1>5. /\ jobs' = o.jobs /\ busy' = o.busy /\ completionQueue' = o.completions
      /\ lastScheduled' = o.last
  BY <1>2 DEF Submitted
<1>6. HostInv'
  BY <1>0, <1>1, <1>2, <1>4, <1>5, NextState
<1>7. \A e \in Int : MayMove(eventQueue, eventQueue, t, e)
  <2>1. InOrder(eventQueue) /\ t \in Nat
    BY DEF HostState, Device0
  <2> QED BY <2>1, OwnEntries
<1> QED BY <1>2, <1>4, <1>5, <1>6, <1>7 DEF Kept

(***************************************************************************)
(* An arbitrary driver submits at any tick and in callbacks.               *)
(***************************************************************************)
LEMMA HostSubmitsKeeps ==
  ASSUME HostInv, load.kind = "driver", NEW r \in load.requests,
         NEW t \in 0 .. MaxTick, HostSubmits(r, t), Idle
  PROVE  Kept
<1>0. /\ pc = "idle" /\ simTick <= t /\ simTick' = t /\ Submit(r, t)
      /\ eventQueue # <<>> => t <= Head(eventQueue).tick
      /\ UNCHANGED <<numCores, pc, load, gen>>
  BY DEF HostSubmits, Idle
<1>1. r \in Requests /\ t \in Nat
  BY HILAssumption DEF HostInv, LoadTypes
<1>2. HostState(eventQueue, jobs, busy, completionQueue, lastScheduled,
                simTick, pc)
  BY DEF HostInv
<1>3. /\ InOrder(eventQueue) /\ simTick \in Nat /\ lastScheduled \in Nat
      /\ Armed(eventQueue, completionQueue, lastScheduled, simTick)
  BY <1>0, <1>2 DEF HostState, Device0, Mode
<1>4. NotBefore(eventQueue, t)
  <2> SUFFICES ASSUME NEW i \in 1 .. Len(eventQueue)
               PROVE  t <= eventQueue[i].tick
    BY DEF NotBefore
  <2>1. eventQueue \in Seq(EventEntry) /\ Sorted(eventQueue)
    BY <1>3 DEF InOrder
  <2>2. Len(eventQueue) \in Nat /\ eventQueue[i].tick \in Nat
        /\ 1 \in 1 .. Len(eventQueue) /\ 1 <= i /\ eventQueue[1].tick \in Nat
    BY <2>1, EntryTypes
  <2>3. eventQueue # <<>> /\ Head(eventQueue) = eventQueue[1]
    BY <2>1, <2>2
  <2>4. eventQueue[1].tick <= eventQueue[i].tick
    BY <2>1, <2>2 DEF Sorted
  <2> QED BY <1>0, <1>1, <2>2, <2>3, <2>4
<1>5. Armed(eventQueue, completionQueue, lastScheduled, t)
  <2>1. lastScheduled <= simTick => lastScheduled <= t
    BY <1>0, <1>1, <1>3
  <2> QED BY <1>3, <2>1 DEF Armed
<1>6. HostState(eventQueue, jobs, busy, completionQueue, lastScheduled, t, pc)
  BY <1>0, <1>1, <1>2, <1>4, <1>5 DEF HostState, Device0, Mode
<1> QED BY <1>0, <1>1, <1>6, SubmitKeeps

LEMMA CallbackSubmitsKeeps ==
  ASSUME HostInv, load.kind = "driver", NEW r \in load.requests,
         CallbackSubmits(r), Idle
  PROVE  Kept
<1>0. /\ simTick' = simTick /\ Submit(r, simTick)
      /\ \E x \in completionQueue : x.finishedAt <= simTick
      /\ UNCHANGED <<numCores, pc, load, gen>>
  BY DEF CallbackSubmits, Idle, Tops, Due
<1>1. r \in Requests
  BY DEF HostInv, LoadTypes
<1>2. HostState(eventQueue, jobs, busy, completionQueue, lastScheduled,
                simTick, pc)
  BY DEF HostInv
<1> QED BY <1>0, <1>1, <1>2, SubmitKeeps

-----------------------------------------------------------------------------
(***************************************************************************)
(* main starts with the generator's begin and, perhaps, its statistics.    *)
(***************************************************************************)
LEMMA InitEvents ==
  ASSUME StackInit, load.period \in Nat
  PROVE  /\ eventQueue \in Seq(EventEntry)
         /\ \A i \in 1 .. Len(eventQueue) :
              \/ i = 1 /\ eventQueue[i] = Entry(BeginEvent, 0)
              \/ i = 2 /\ eventQueue[i] = Entry(StatEvent, load.period)
<1>1. /\ Entry(BeginEvent, 0) \in EventEntry
      /\ Entry(StatEvent, load.period) \in EventEntry
  BY DEF Entry, EventEntry, BeginEvent, StatEvent
<1>2. CASE load.kind = "driver"
  <2>1. eventQueue = <<>>
    BY <1>2 DEF StackInit
  <2> QED BY <2>1
<1>3. CASE load.kind # "driver"
  <2>1. PICK x \in EventEntry : x = Entry(BeginEvent, 0)
    BY <1>1
  <2>2. PICK y \in EventEntry : y = Entry(StatEvent, load.period)
    BY <1>1
  <2>3. PICK s : s = IF load.period = 0 THEN <<>> ELSE <<y>>
    OBVIOUS
  <2>4. s \in Seq(EventEntry) /\ Len(s) \in {0, 1}
        /\ \A i \in 1 .. Len(s) : i = 1 /\ s[i] = y
    <3>1. CASE load.period = 0
      BY <2>3, <3>1
    <3>2. CASE load.period # 0
      BY <2>3, <3>2
    <3> QED BY <3>1, <3>2
  <2>5. PICK v : v = <<x>>
    OBVIOUS
  <2>6. /\ v \in Seq(EventEntry) /\ Len(v) = 1 /\ v[1] = x
        /\ eventQueue = v \o s
    BY <1>3, <2>1, <2>2, <2>3, <2>5 DEF StackInit
  <2>7. /\ eventQueue \in Seq(EventEntry) /\ Len(eventQueue) = 1 + Len(s)
        /\ \A i \in 1 .. 1 + Len(s) :
             eventQueue[i] = IF i <= 1 THEN v[i] ELSE s[i - 1]
    BY <2>4, <2>6, ConcatProperties, SMTT(30)
  <2>8. ASSUME NEW i \in 1 .. Len(eventQueue)
        PROVE  \/ i = 1 /\ eventQueue[i] = x
               \/ i = 2 /\ eventQueue[i] = y
    <3>1. CASE i = 1
      BY <2>4, <2>6, <2>7, <3>1
    <3>2. CASE i # 1
      <4>1. i - 1 \in 1 .. Len(s) /\ ~(i <= 1)
        BY <2>4, <2>7, <3>2
      <4>2. i - 1 = 1 /\ s[i - 1] = y
        BY <2>4, <4>1
      <4> QED BY <2>7, <4>1, <4>2
    <3> QED BY <3>1, <3>2
  <2> QED BY <2>1, <2>2, <2>7, <2>8
<1> QED BY <1>2, <1>3

(***************************************************************************)
(* The simulation starts in order.                                         *)
(***************************************************************************)
LEMMA InitHostInv ==
  ASSUME StackInit
  PROVE  HostInv
<1>1. /\ numCores \in Nat /\ simTick = 0 /\ completionQueue = {}
      /\ lastScheduled = 0 /\ pc = "idle" /\ gen = Generator
      /\ jobs = [c \in Core |-> <<>>] /\ busy = [c \in Core |-> FALSE]
  BY HILAssumption DEF StackInit, DeviceInit
<1>2. LoadTypes
  <2>1. load \in Workloads
    BY DEF StackInit
  <2>2. CASE load.kind = "generator"
    BY <2>1, <2>2, WorkloadAssumption DEF LoadTypes, GeneratorLoad
  <2>3. CASE load.kind # "generator"
    BY <2>1, <2>3, WorkloadAssumption DEF LoadTypes, TraceLoad
  <2> QED BY <2>2, <2>3
<1>3. IsGenerator(gen)
  BY <1>1 DEF IsGenerator, Generator, NoLine
<1>4. load.period \in Nat
  BY <1>2 DEF LoadTypes
<1>5. /\ eventQueue \in Seq(EventEntry)
      /\ \A i \in 1 .. Len(eventQueue) :
           \/ i = 1 /\ eventQueue[i] = Entry(BeginEvent, 0)
           \/ i = 2 /\ eventQueue[i] = Entry(StatEvent, load.period)
  BY <1>4, InitEvents
<1>6. /\ Entry(BeginEvent, 0).tick = 0 /\ Entry(BeginEvent, 0).eid = -1
      /\ Entry(StatEvent, load.period).tick = load.period
      /\ Entry(StatEvent, load.period).eid = -3
  BY DEF Entry, BeginEvent, StatEvent
<1>7. Sorted(eventQueue) /\ OncePerEvent(eventQueue)
      /\ NotBefore(eventQueue, simTick)
  BY <1>1, <1>4, <1>5, <1>6, SMTT(30) DEF Sorted, OncePerEvent, NotBefore
<1>8. InOrder(eventQueue)
  BY <1>5, <1>7 DEF InOrder
<1>9. \A f \in Nat, u \in Nat : ~ScheduledAt(eventQueue, f, u)
  BY <1>5, <1>6 DEF ScheduledAt, Places
<1>10. BeginsAtZero(eventQueue)
  BY <1>5, <1>6, <1>8, PlacesLemma DEF BeginsAtZero, BeginEvent
<1>11. Armed(eventQueue, completionQueue, lastScheduled, simTick)
  BY <1>1, <1>9 DEF Armed, Completion
<1>12. CoresAwake(eventQueue, jobs, busy)
  <2>1. \A c \in Core : c \in Nat
    BY <1>1 DEF Core
  <2> QED BY <1>1, <1>9, <2>1 DEF CoresAwake
<1>13. CoreTypes(jobs, busy)
  <2>1. <<>> \in Seq(Requests \cup Nat)
    OBVIOUS
  <2> QED BY <1>1, <2>1 DEF CoreTypes
<1>14. Ticks(completionQueue)
  BY <1>1 DEF Ticks
<1> QED BY <1>1, <1>2, <1>3, <1>7, <1>8, <1>10, <1>11, <1>12, <1>13, <1>14
        DEF HostInv, HostState, Device0, Mode

(***************************************************************************)
(* Every step, and no step, keeps the invariant.                           *)
(***************************************************************************)
LEMMA NextKeeps ==
  ASSUME HostInv, StackNext
  PROVE  Kept
<1>1. CASE BeginTrace
  BY <1>1, BeginTraceKeeps
<1>2. CASE SubmitTrace
  BY <1>2, SubmitTraceKeeps
<1>3. CASE BeginGenerated
  BY <1>3, BeginGeneratedKeeps
<1>4. CASE SubmitGenerated
  BY <1>4, SubmitGeneratedKeeps
<1>5. CASE Statistics
  BY <1>5, StatisticsKeeps
<1>6. CASE CompleteIO
  BY <1>6, CompleteIOKeeps
<1>7. CASE (\E c \in Core : jobDone(c)) /\ Idle
  BY <1>7, JobDoneKeeps
<1>8. CASE StartCompletion /\ Idle
  BY <1>8, StartCompletionKeeps
<1>9. CASE CompleteTop /\ Idle
  BY <1>9, CompleteTopKeeps
<1>10. CASE EndCompletion /\ Idle
  BY <1>10, EndCompletionKeeps
<1>11. CASE \E e \in DriverEvents : DriverFires(e)
  BY <1>11, DriverFiresKeeps
<1>12. CASE OtherDriver
  <2>1. load.kind = "driver"
    BY <1>12 DEF OtherDriver
  <2>2. CASE /\ \E r \in load.requests, t \in 0 .. MaxTick : HostSubmits(r, t)
             /\ Idle
    BY <2>1, <2>2, HostSubmitsKeeps
  <2>3. CASE (\E r \in load.requests : CallbackSubmits(r)) /\ Idle
    BY <2>1, <2>3, CallbackSubmitsKeeps
  <2>4. CASE \E e \in DriverEvents, t \in 0 .. MaxTick : DriverSchedules(e, t)
    BY <2>4, DriverSchedulesKeeps
  <2>5. CASE \E e \in DriverEvents : DriverDeschedules(e)
    BY <2>5, DriverDeschedulesKeeps
  <2> QED BY <1>12, <2>2, <2>3, <2>4, <2>5 DEF OtherDriver
<1> QED BY <1>1, <1>2, <1>3, <1>4, <1>5, <1>6, <1>7, <1>8, <1>9, <1>10, <1>11,
           <1>12 DEF StackNext, Simulation

LEMMA StutterKeeps ==
  ASSUME HostInv, UNCHANGED stackVars
  PROVE  Kept
<1>1. /\ numCores \in Nat /\ IsGenerator(gen) /\ InOrder(eventQueue)
      /\ HostState(eventQueue, jobs, busy, completionQueue, lastScheduled,
                   simTick, pc)
      /\ LoadTypes
  BY DEF HostInv, HostState, Device0
<1>2. UNCHANGED <<numCores, simTick, eventQueue, jobs, busy, completionQueue,
                  lastScheduled, pc, load, gen>>
  BY DEF stackVars, vars
<1>3. HostInv'
  BY <1>1, <1>2, NextState, LoadUnchanged
<1>4. NoneOvertaken(eventQueue, eventQueue')
  BY <1>1, <1>2, OwnEntries
<1> QED BY <1>2, <1>3, <1>4 DEF Kept

(***************************************************************************)
(* What the inductive invariant says of wake-ups.                          *)
(***************************************************************************)
LEMMA InvWakesUp ==
  ASSUME HostInv
  PROVE  WakeUpsArmed
<1>0. /\ numCores \in Nat /\ InOrder(eventQueue)
      /\ NotBefore(eventQueue, simTick)
      /\ CoresAwake(eventQueue, jobs, busy) /\ Ticks(completionQueue)
      /\ Mode(eventQueue, completionQueue, lastScheduled, simTick, pc)
      /\ lastScheduled \in Nat
  BY DEF HostInv, HostState, Device0
<1>1. CompletionArmed
  <2> SUFFICES ASSUME pc = "idle", completionQueue # {}
               PROVE  \E x \in Tops(completionQueue) :
                        ScheduledAt(eventQueue, Completion, x.finishedAt)
    BY DEF CompletionArmed
  <2>1. Armed(eventQueue, completionQueue, lastScheduled, simTick)
    BY <1>0 DEF Mode
  <2>2. PICK x \in completionQueue : x.finishedAt = lastScheduled
    BY <2>1 DEF Armed
  <2>3. x \in Tops(completionQueue)
    BY <2>1, <2>2 DEF Armed, Tops
  <2>4. ScheduledAt(eventQueue, Completion, lastScheduled)
    BY <1>0, <2>1 DEF Armed
  <2> QED BY <2>2, <2>3, <2>4
<1>2. CoresWork
  <2> SUFFICES ASSUME NEW c \in Core
               PROVE  /\ busy[c] <=> jobs[c] # <<>>
                      /\ busy[c] <=> Places(eventQueue, c) # {}
    BY DEF CoresWork
  <2>1. c \in Int
    BY DEF Core
  <2>2. Places(eventQueue, c) # {} <=> \E u \in Nat : ScheduledAt(eventQueue, c, u)
    BY <1>0, <2>1, PlacesLemma
  <2> QED BY <1>0, <2>2 DEF CoresAwake
<1>3. QueueInvariant
  BY <1>0 DEF QueueInvariant, InOrder, Sorted, OncePerEvent, NotBefore
<1> QED BY <1>1, <1>2, <1>3 DEF WakeUpsArmed

(***************************************************************************)
(* The invariant holds in every state, and every step does what Kept says. *)
(***************************************************************************)
LEMMA StepsKeep ==
  StackSpec => []HostInv /\ [][Kept]_stackVars
<1>1. StackInit => HostInv
  BY InitHostInv
<1>2. HostInv /\ [StackNext]_stackVars => HostInv' /\ [Kept]_stackVars
  <2>1. HostInv /\ StackNext => Kept
    BY NextKeeps
  <2>2. HostInv /\ UNCHANGED stackVars => Kept
    BY StutterKeeps
  <2>3. Kept => HostInv'
    BY DEF Kept
  <2> QED BY <2>1, <2>2, <2>3
<1> QED BY <1>1, <1>2, PTL DEF StackSpec

(***************************************************************************)
(* Between events, the completion event is scheduled for the request that  *)
(* is finished first (hil.cc, updateCompletion and its lastScheduled), a   *)
(* core has an event exactly while it has jobs (cpu.cc), and the engine's  *)
(* list is sorted, has one entry per event and none in the past            *)
(* (engine.cc, insertEvent): whatever the workload, the number of cores    *)
(* and the latencies, no wake-up is lost.                                  *)
(***************************************************************************)
THEOREM NoWakeUpIsLost ==
  StackSpec => []WakeUpsArmed
<1>1. HostInv => WakeUpsArmed
  BY InvWakesUp
<1> QED BY <1>1, StepsKeep, PTL

(***************************************************************************)
(* A request leaves the completion queue at the tick at which the device   *)
(* finished it (hil.cc, completion), so the latency that the block layer   *)
(* records is the device's.                                                *)
(***************************************************************************)
THEOREM CompletionsOnTime ==
  StackSpec => OnTime
<1>1. Kept => \A x \in completionQueue \ completionQueue' :
                simTick' = x.finishedAt
  BY DEF Kept
<1> QED BY <1>1, StepsKeep, PTL DEF OnTime

(***************************************************************************)
(* Events that are due at the same tick fire in the order in which they    *)
(* were scheduled (engine.cc, insertEvent), where a core's job takes time: *)
(* a job of no ticks at all would be scheduled for the very tick of the    *)
(* event it follows, and could not be told apart from it.                  *)
(***************************************************************************)
THEOREM EventsInSchedulingOrder ==
  ASSUME 0 \notin CoreLatency
  PROVE  StackSpec => FirstScheduledFirst
<1>1. Kept =>
        \A i, j \in 1 .. Len(eventQueue') :
          /\ i < j /\ eventQueue'[i].tick = eventQueue'[j].tick
          /\ \E k \in 1 .. Len(eventQueue) : eventQueue[k] = eventQueue'[j]
          => \E k \in 1 .. Len(eventQueue) : eventQueue[k] = eventQueue'[i]
  BY DEF Kept, NoneOvertaken, Listed
<1> QED BY <1>1, StepsKeep, PTL DEF FirstScheduledFirst

-----------------------------------------------------------------------------
(***************************************************************************)
(* What the hosts have outstanding.  The states a request goes through:    *)
(***************************************************************************)
States == {"new", "queued", "device", "done"}

(***************************************************************************)
(* A name for every I/O: those of a trace are numbered by their lines.     *)
(***************************************************************************)
IdsSuffice ==
  \A w \in Workloads :
    /\ w.kind = "trace" => 1 .. Len(w.lines) \subseteq Requests
    /\ w.kind = "generator" => Nat \subseteq Requests

(***************************************************************************)
(* The queue depth of the configuration, where there is one, is not 0.     *)
(***************************************************************************)
PositiveDepth(w) ==
  /\ w.kind = "trace" /\ w.mode = "async" => w.depth # 0
  /\ w.kind = "generator" => w.depth # 0

PositiveDepths == \A w \in Workloads : PositiveDepth(w)

LoadOK ==
  /\ load.kind = "trace" =>
       /\ load \in TraceLoad
       /\ 1 .. Len(load.lines) \subseteq Requests
  /\ load.kind = "generator" =>
       /\ Nat \subseteq Requests
       /\ {load.depth, load.ioSize, load.runtime, load.blocksize} \subseteq Nat
  /\ PositiveDepths => PositiveDepth(load)

(***************************************************************************)
(* Where the requests of the device are: on one core, or on the completion *)
(* queue.                                                                  *)
(***************************************************************************)
PlacesInv(j, cq, st) ==
  /\ st \in [Requests -> States]
  /\ \A x \in cq : x.req \in Requests /\ st[x.req] = "device"
  /\ \A x, y \in cq : x.req = y.req => x = y
  /\ \A c \in Core : \A i \in 1 .. Len(j[c]) :
       j[c][i] \in Requests /\ st[j[c][i]] = "queued"
  /\ \A c, d \in Core : \A i \in 1 .. Len(j[c]), k \in 1 .. Len(j[d]) :
       j[c][i] = j[d][k] => c = d /\ i = k

InUse(st) == {r \in Requests : st[r] \in {"queued", "device"}}

Holds(io, r) == \E i \in 1 .. Len(io) : io[i].id = r

IOQueueInv(io, st, depth) ==
  /\ \E S : io \in Seq(S)
  /\ depth = Len(io)
  /\ \A i, k \in 1 .. Len(io) : io[i].id = io[k].id => i = k
  /\ \A i \in 1 .. Len(io) : io[i].id \in InUse(st)
  /\ \A r \in InUse(st) : Holds(io, r)

(***************************************************************************)
(* Requests go forward only.                                               *)
(***************************************************************************)
Begun(st, r) == st[r] # "new"

Progress(st, su) ==
  /\ st \in [Requests -> States] /\ su \in [Requests -> States]
  /\ \A r \in Requests :
       /\ Begun(st, r) <=> Begun(su, r)
       /\ st[r] \in {"device", "done"} => su[r] \in {"device", "done"}

(***************************************************************************)
(* The generators.  A queue depth of 0 lets one I/O through.               *)
(***************************************************************************)
Waits(q, e) == \E u \in Nat : ScheduledAt(q, e, u)

SameHostEvents(q, r) ==
  /\ Waits(r, BeginEvent) <=> Waits(q, BeginEvent)
  /\ Waits(r, SubmitEvent) <=> Waits(q, SubmitEvent)

Bound == IF load.depth = 0 THEN 1 ELSE load.depth

Target == IF load.maxIO = 0 THEN Cardinality(Matched)
          ELSE Smaller(load.maxIO, Cardinality(Matched))

AllSubmitted(st) ==
  \/ IclCount(st) > load.limit
  \/ \A r \in Requests : Begun(st, r) <=> r \in 1 .. Target

TraceCore(g, st) ==
  /\ g.reserve \in BOOLEAN /\ g.sync \in BOOLEAN /\ g.depth \in Nat
  /\ g.pos \in 0 .. Len(load.lines) /\ g.count = MatchedUpTo(g.pos)
  /\ \A r \in Requests : Begun(st, r) => r \in 1 .. g.count
  /\ ~g.reserve => /\ \A r \in Requests : Begun(st, r) <=> r \in 1 .. g.count - 1
                   /\ load.maxIO # 0 => g.count <= load.maxIO
                   /\ g.count # 0 => g.depth < g.count
  /\ g.depth <= g.count
  /\ g.reserve => AllSubmitted(st)
  /\ g.status = "ended" => g.reserve /\ g.depth = 0

TraceDepth(g, q) ==
  /\ load.mode = "sync" => g.depth <= 1
  /\ load.mode = "async" => g.depth <= Bound
  /\ g.sync => load.mode = "async" /\ ~g.reserve
  /\ g.status = "running" =>
       /\ Waits(q, BeginEvent) => g = Generator /\ ~Waits(q, SubmitEvent)
       /\ Waits(q, SubmitEvent) =>
            /\ ~g.reserve /\ ~g.sync /\ g.count # 0
            /\ load.mode = "sync" => g.depth = 0
            /\ load.mode = "async" => g.depth < Bound

TraceInv(g, q, st) == TraceCore(g, st) /\ TraceDepth(g, q)

GenInv(g, q, st, now) ==
  /\ g.reserve \in BOOLEAN /\ g.depth \in Nat /\ g.bytes \in Nat
  /\ \A r \in Requests : Begun(st, r) => r \in 0 .. g.count - 1
  /\ g.depth <= Bound
  /\ g.reserve => AllGenerated(g, now)
  /\ g.status = "ended" => g.reserve /\ g.depth = 0
  /\ g.status = "running" =>
       /\ Waits(q, BeginEvent) => g = Generator /\ ~Waits(q, SubmitEvent)
       /\ Waits(q, SubmitEvent) => g.depth < Bound

DepthInv ==
  /\ load.kind \in {"trace", "generator", "driver"}
  /\ load.kind = "driver" => gen.status = "running"
  /\ load.kind # "driver" =>
    /\ LoadOK
    /\ PlacesInv(jobs, completionQueue, state)
    /\ IOQueueInv(ioQueue, state, gen.depth)
    /\ load.kind = "trace" => TraceInv(gen, eventQueue, state)
    /\ load.kind = "generator" => GenInv(gen, eventQueue, state, simTick)

-----------------------------------------------------------------------------
(***************************************************************************)
(* The lines of a trace that match, counted.                               *)
(***************************************************************************)
LEMMA MatchedLemma ==
  ASSUME load \in TraceLoad
  PROVE  /\ Len(load.lines) \in Nat /\ Matched \subseteq 1 .. Len(load.lines)
         /\ IsFiniteSet(Matched) /\ Cardinality(Matched) \in Nat
         /\ Cardinality(Matched) <= Len(load.lines)
         /\ \A n : /\ IsFiniteSet({i \in Matched : i <= n})
                   /\ MatchedUpTo(n) \in 0 .. Cardinality(Matched)
<1>1. Len(load.lines) \in Nat /\ Matched \subseteq 1 .. Len(load.lines)
  BY DEF TraceLoad, Matched
<1>2. PICK n \in Nat : n = Len(load.lines)
  BY <1>1
<1>3. IsFiniteSet(1 .. n) /\ Cardinality(1 .. n) = n
  BY FS_Interval
<1>4. /\ IsFiniteSet(Matched) /\ Cardinality(Matched) \in Nat
      /\ Cardinality(Matched) <= n
  BY <1>1, <1>2, <1>3, FS_Subset, FS_CardinalityType
<1>5. ASSUME NEW m
      PROVE  /\ IsFiniteSet({i \in Matched : i <= m})
             /\ MatchedUpTo(m) \in 0 .. Cardinality(Matched)
  <2>1. PICK T \in SUBSET Matched : T = {i \in Matched : i <= m}
    OBVIOUS
  <2>2. /\ IsFiniteSet(T) /\ Cardinality(T) \in Nat
        /\ Cardinality(T) <= Cardinality(Matched)
    BY <1>4, FS_Subset, FS_CardinalityType
  <2>3. MatchedUpTo(m) = Cardinality(T)
    BY <2>1 DEF MatchedUpTo
  <2> QED BY <1>4, <2>1, <2>2, <2>3
<1> QED BY <1>1, <1>2, <1>4, <1>5

(***************************************************************************)
(* The next line that matches is one more, and after the last one all are  *)
(* counted.                                                                *)
(***************************************************************************)
LEMMA NextMatched ==
  ASSUME load \in TraceLoad, NEW p \in Nat, NEW n \in Matched, p < n,
         \A i \in Matched : i > p => n <= i
  PROVE  MatchedUpTo(n) = MatchedUpTo(p) + 1
<1>1. Matched \subseteq Nat
  BY MatchedLemma
<1>2. PICK S : S = {i \in Matched : i <= p}
  OBVIOUS
<1>3. PICK T : T = {i \in Matched : i <= n}
  OBVIOUS
<1>4. IsFiniteSet(S)
  BY <1>2, MatchedLemma
<1>5. T = S \cup {n} /\ n \notin S
  <2>1. n \in Nat
    BY <1>1
  <2>2. ASSUME NEW i \in Matched
        PROVE  i <= n <=> i <= p \/ i = n
    <3>1. i \in Nat
      BY <1>1
    <3> QED BY <2>1, <3>1
  <2>3. ~(n <= p)
    BY <2>1
  <2> QED BY <1>2, <1>3, <2>2, <2>3
<1>6. Cardinality(T) = Cardinality(S) + 1
  BY <1>4, <1>5, FS_AddElement
<1> QED BY <1>2, <1>3, <1>6 DEF MatchedUpTo

LEMMA LastMatched ==
  ASSUME load \in TraceLoad, NEW p \in Nat, {i \in Matched : i > p} = {}
  PROVE  /\ MatchedUpTo(p) = Cardinality(Matched)
         /\ MatchedUpTo(Len(load.lines)) = Cardinality(Matched)
<1>1. Len(load.lines) \in Nat /\ Matched \subseteq 1 .. Len(load.lines)
  BY MatchedLemma
<1>2. ASSUME NEW i \in Matched PROVE i <= p /\ i <= Len(load.lines)
  <2>1. i \in 1 .. Len(load.lines) /\ ~(i > p)
    BY <1>1
  <2> QED BY <1>1, <2>1
<1>3. /\ {i \in Matched : i <= p} = Matched
      /\ {i \in Matched : i <= Len(load.lines)} = Matched
  BY <1>2
<1> QED BY <1>2, <1>3 DEF MatchedUpTo

LEMMA NoneMatched ==
  ASSUME load \in TraceLoad
  PROVE  MatchedUpTo(0) = 0
<1>1. Matched \subseteq 1 .. Len(load.lines) /\ Len(load.lines) \in Nat
  BY MatchedLemma
<1>2. {i \in Matched : i <= 0} = {}
  <2>1. \A i \in Matched : i \in 1 .. Len(load.lines)
    BY <1>1
  <2>2. \A i \in Matched : ~(i <= 0)
    BY <1>1, <2>1
  <2> QED BY <2>2
<1> QED BY <1>2, FS_EmptySet DEF MatchedUpTo

LEMMA MatchedIds ==
  ASSUME load \in TraceLoad, NEW n \in Matched
  PROVE  MatchedUpTo(n) \in 1 .. Len(load.lines)
<1>1. /\ Len(load.lines) \in Nat /\ Matched \subseteq 1 .. Len(load.lines)
      /\ Cardinality(Matched) \in Nat /\ Cardinality(Matched) <= Len(load.lines)
      /\ MatchedUpTo(n) \in 0 .. Cardinality(Matched)
      /\ IsFiniteSet({i \in Matched : i <= n})
  BY MatchedLemma
<1>2. n \in {i \in Matched : i <= n}
  BY <1>1
<1>3. Cardinality({i \in Matched : i <= n}) # 0
  BY <1>1, <1>2, FS_EmptySet
<1> QED BY <1>1, <1>3 DEF MatchedUpTo

(***************************************************************************)
(* The pages read or written become no fewer.                              *)
(***************************************************************************)
LEMMA IclGrows ==
  ASSUME load \in TraceLoad, 1 .. Len(load.lines) \subseteq Requests,
         NEW st, NEW su, Progress(st, su)
  PROVE  /\ IclCount(st) \in Nat /\ IclCount(su) \in Nat
         /\ IclCount(st) <= IclCount(su)
<1> DEFINE Pages(s) ==
      {p \in Matched \X (1 .. LogicalPages) :
         /\ s[MatchedUpTo(p[1])] \in {"device", "done"}
         /\ load.lines[p[1]].type = "rw"
         /\ p[2] <= DivCeil(load.lines[p[1]].length, LogicalPageSize)}
<1>1. IsFiniteSet(Matched) /\ IsFiniteSet(1 .. LogicalPages)
  <2>1. LogicalPages \in Int
    BY StackAssumption
  <2> QED BY <2>1, MatchedLemma, FS_Interval
<1>2. IsFiniteSet(Matched \X (1 .. LogicalPages))
  BY <1>1, FS_Product
<1>3. \A s : Pages(s) \in SUBSET (Matched \X (1 .. LogicalPages))
  OBVIOUS
<1>4. Pages(st) \in SUBSET Pages(su)
  <2> SUFFICES ASSUME NEW p \in Pages(st)
               PROVE  su[MatchedUpTo(p[1])] \in {"device", "done"}
    OBVIOUS
  <2>1. p[1] \in Matched
    OBVIOUS
  <2>2. MatchedUpTo(p[1]) \in Requests
    BY <2>1, MatchedIds
  <2> QED BY <2>2 DEF Progress
<1>5. IclCount(st) = Cardinality(Pages(st)) /\ IclCount(su) = Cardinality(Pages(su))
  BY DEF IclCount
<1> HIDE DEF Pages
<1> QED BY <1>2, <1>3, <1>4, <1>5, FS_Subset, FS_CardinalityType

-----------------------------------------------------------------------------
(***************************************************************************)
(* The events of the host.                                                 *)
(***************************************************************************)
LEMMA HostEvents ==
  /\ BeginEvent \in Int /\ BeginEvent < 0
  /\ SubmitEvent \in Int /\ SubmitEvent < 0
  /\ StatEvent \in Int /\ StatEvent < 0
  /\ BeginEvent # SubmitEvent /\ BeginEvent # StatEvent
  /\ SubmitEvent # StatEvent
BY DEF BeginEvent, SubmitEvent, StatEvent

LEMMA HostKeptSame ==
  ASSUME NEW q, NEW r, HostKept(q, r)
  PROVE  SameHostEvents(q, r)
BY HostEvents DEF HostKept, SameHostEvents, Waits

LEMMA OthersKeptSame ==
  ASSUME NEW q, NEW r, NEW e \in Int, OthersKept(q, r, e),
         e # BeginEvent, e # SubmitEvent
  PROVE  SameHostEvents(q, r)
BY HostEvents DEF OthersKept, SameHostEvents, Waits

LEMMA SubmitScheduled ==
  ASSUME NEW q, InOrder(q), NEW t \in Nat,
         NEW r, r = insertEvent(q, SubmitEvent, t)
  PROVE  /\ Waits(r, BeginEvent) <=> Waits(q, BeginEvent)
         /\ Waits(r, SubmitEvent)
<1>1. /\ OthersKept(q, r, SubmitEvent)
      /\ \A u : ScheduledAt(r, SubmitEvent, u) <=> u = t
  BY HostEvents, InsertEventLemma
<1> QED BY <1>1, HostEvents DEF OthersKept, Waits

LEMMA StatRemoved ==
  ASSUME NEW q, InOrder(q), NEW r, r = removeEvent(q, StatEvent)
  PROVE  SameHostEvents(q, r)
<1>1. OthersKept(q, r, StatEvent)
  BY HostEvents, RemoveEventLemma
<1> QED BY <1>1, HostEvents, OthersKeptSame

LEMMA EventTaken ==
  ASSUME NEW q, InOrder(q), q # <<>>, NEW r, r = Tail(q),
         NEW e \in Int, Head(q).eid = e
  PROVE  /\ Waits(q, e) /\ ~Waits(r, e)
         /\ OthersKept(q, r, e)
         /\ \A f \in Int : f # e => (Waits(r, f) <=> Waits(q, f))
<1>1. PICK h : h = Head(q)
  OBVIOUS
<1>2. /\ ScheduledAt(q, h.eid, h.tick) /\ h.tick \in Nat
      /\ OthersKept(q, r, h.eid) /\ \A u : ~ScheduledAt(r, h.eid, u)
  BY <1>1, NextEventLemma
<1>3. h.eid = e
  BY <1>1
<1> QED BY <1>2, <1>3 DEF OthersKept, Waits

-----------------------------------------------------------------------------
(***************************************************************************)
(* The block layer's queue: an I/O comes at the end, and goes from where   *)
(* it is.                                                                  *)
(***************************************************************************)
LEMMA IOTaken ==
  ASSUME NEW io, NEW st \in [Requests -> States], NEW depth,
         IOQueueInv(io, st, depth),
         NEW b, b.id \in Requests, ~Begun(st, b.id),
         NEW s \in {"queued", "device"}, NEW su, su = [st EXCEPT ![b.id] = s]
  PROVE  IOQueueInv(Append(io, b), su, depth + 1)
<1>1. PICK S : io \in Seq(S)
  BY DEF IOQueueInv
<1>2. PICK T : T = S \cup {b}
  OBVIOUS
<1>3. io \in Seq(T) /\ b \in T /\ Len(io) \in Nat
  <2>1. S \subseteq T /\ b \in T
    BY <1>2
  <2> QED BY <1>1, <2>1
<1>4. PICK n : n = Append(io, b)
  OBVIOUS
<1>5. /\ n \in Seq(T) /\ Len(n) = Len(io) + 1
      /\ \A i \in 1 .. Len(io) : n[i] = io[i]
      /\ n[Len(io) + 1] = b
  BY <1>3, <1>4
<1>6. InUse(su) = InUse(st) \cup {b.id} /\ b.id \notin InUse(st)
  BY DEF InUse, Begun, States
<1>7. \A i \in 1 .. Len(n) : i \in 1 .. Len(io) \/ i = Len(io) + 1
  BY <1>3, <1>5
<1>8. ASSUME NEW i \in 1 .. Len(n), NEW k \in 1 .. Len(n), n[i].id = n[k].id
      PROVE  i = k
  <2>1. \A m \in 1 .. Len(io) : n[m].id # b.id
    BY <1>5, <1>6 DEF IOQueueInv
  <2> QED BY <1>5, <1>7, <1>8, <2>1 DEF IOQueueInv
<1>9. \A i \in 1 .. Len(n) : n[i].id \in InUse(su)
  BY <1>5, <1>6, <1>7 DEF IOQueueInv
<1>10. ASSUME NEW r \in InUse(su) PROVE Holds(n, r)
  <2>1. 1 .. Len(io) \subseteq 1 .. Len(n) /\ Len(io) + 1 \in 1 .. Len(n)
    BY <1>3, <1>5
  <2>2. CASE r = b.id
    BY <1>5, <2>1, <2>2 DEF Holds
  <2>3. CASE r # b.id
    <3>1. PICK i \in 1 .. Len(io) : io[i].id = r
      BY <1>6, <1>10, <2>3 DEF IOQueueInv, Holds
    <3>2. i \in 1 .. Len(n) /\ n[i] = io[i]
      BY <1>5, <2>1
    <3> QED BY <3>1, <3>2 DEF Holds
  <2> QED BY <2>2, <2>3
<1>11. depth + 1 = Len(n)
  BY <1>5 DEF IOQueueInv
<1>12. \E U : n \in Seq(U)
  BY <1>5
<1> QED BY <1>4, <1>8, <1>9, <1>10, <1>11, <1>12 DEF IOQueueInv

LEMMA IOFound ==
  ASSUME NEW depth, IOQueueInv(ioQueue, state, depth),
         state \in [Requests -> States], NEW r, r \in InUse(state),
         completion(r), NEW su, su = [state EXCEPT ![r] = "done"]
  PROVE  /\ IOQueueInv(ioQueue', su, depth - 1)
         /\ depth \in Nat \ {0}
<1> DEFINE places == {i \in 1 .. Len(ioQueue) : ioQueue[i].id = r}
<1>1. PICK S : ioQueue \in Seq(S)
  BY DEF IOQueueInv
<1>2. Len(ioQueue) \in Nat /\ places \subseteq Nat
  BY <1>1
<1>3. places # {}
  BY DEF IOQueueInv, Holds
<1>4. PICK k \in places : k = Min(places)
  BY <1>2, <1>3, MinLemma
<1>5. PICK n : n = RemoveAt(ioQueue, k)
  OBVIOUS
<1>6. ioQueue' = n
  BY <1>3, <1>4, <1>5 DEF completion
<1>7. k \in 1 .. Len(ioQueue) /\ ioQueue[k].id = r
  BY <1>4
<1> HIDE DEF places
<1>8. /\ n \in Seq(S) /\ Len(n) = Len(ioQueue) - 1
      /\ \A j \in 1 .. Len(ioQueue) - 1 :
           n[j] = IF j < k THEN ioQueue[j] ELSE ioQueue[j + 1]
  BY <1>1, <1>5, <1>7, RemoveAtLemma
<1>9. InUse(su) = InUse(state) \ {r}
  BY DEF InUse, States
<1>10. \A i \in 1 .. Len(ioQueue) : ioQueue[i].id = r => i = k
  BY <1>7 DEF IOQueueInv
<1>11. ASSUME NEW j \in 1 .. Len(n)
       PROVE  \E i \in 1 .. Len(ioQueue) :
                i # k /\ n[j] = ioQueue[i] /\ i = IF j < k THEN j ELSE j + 1
  <2>1. j \in 1 .. Len(ioQueue) - 1 /\ j + 1 \in 1 .. Len(ioQueue)
        /\ j \in 1 .. Len(ioQueue)
    BY <1>2, <1>8
  <2>2. j < k \/ j + 1 # k
    BY <1>2, <1>7, <2>1
  <2> QED BY <1>7, <1>8, <2>1, <2>2
<1>12. ASSUME NEW i \in 1 .. Len(n), NEW j \in 1 .. Len(n), n[i].id = n[j].id
       PROVE  i = j
  <2>1. PICK u \in 1 .. Len(ioQueue) :
          n[i] = ioQueue[u] /\ u = IF i < k THEN i ELSE i + 1
    BY <1>11
  <2>2. PICK v \in 1 .. Len(ioQueue) :
          n[j] = ioQueue[v] /\ v = IF j < k THEN j ELSE j + 1
    BY <1>11
  <2>3. u = v
    BY <1>12, <2>1, <2>2 DEF IOQueueInv
  <2> QED BY <1>2, <1>7, <1>8, <2>1, <2>2, <2>3
<1>13. \A i \in 1 .. Len(n) : n[i].id \in InUse(su)
  BY <1>9, <1>10, <1>11 DEF IOQueueInv
<1>14. ASSUME NEW x \in InUse(su) PROVE Holds(n, x)
  <2>1. PICK i \in 1 .. Len(ioQueue) : ioQueue[i].id = x
    BY <1>9 DEF IOQueueInv, Holds
  <2>2. i # k
    BY <1>7, <1>9, <2>1
  <2>3. CASE i < k
    <3>1. i \in 1 .. Len(n)
      BY <1>2, <1>7, <1>8, <2>3
    <3> QED BY <1>8, <2>1, <2>3, <3>1 DEF Holds
  <2>4. CASE i > k
    <3>1. i - 1 \in 1 .. Len(n) /\ ~(i - 1 < k) /\ (i - 1) + 1 = i
      BY <1>2, <1>7, <1>8, <2>4
    <3> QED BY <1>8, <2>1, <3>1 DEF Holds
  <2> QED BY <1>7, <2>2, <2>3, <2>4
<1>15. depth - 1 = Len(n) /\ depth \in Nat \ {0}
  BY <1>2, <1>7, <1>8 DEF IOQueueInv
<1>16. \E U : n \in Seq(U)
  BY <1>8
<1> QED BY <1>6, <1>12, <1>13, <1>14, <1>15, <1>16 DEF IOQueueInv

-----------------------------------------------------------------------------
(***************************************************************************)
(* Where the requests of the device are: a request that comes, one that a  *)
(* core executes, and one that is completed.                               *)
(***************************************************************************)
LEMMA ExecuteFinishes ==
  ASSUME NEW r, NEW q, NEW t, NEW e \in Execute(r, q, t)
  PROVE  \E d \in DeviceLatency :
           e.completions = completionQueue \cup {Finished(r, t + d)}
<1>1. PICK d \in DeviceLatency :
        e = [completions |-> completionQueue \cup {Finished(r, t + d)},
             events |-> updateCompletion(q, completionQueue \cup {Finished(r, t + d)})[1],
             last |-> updateCompletion(q, completionQueue \cup {Finished(r, t + d)})[2]]
  BY Zenon DEF Execute
<1> QED BY <1>1

LEMMA SubmissionPlaced ==
  ASSUME CoreTypes(jobs, busy), PlacesInv(jobs, completionQueue, state),
         NEW r \in Requests, ~Begun(state, r), NEW q, NEW t,
         NEW o \in Submissions(r, q, t)
  PROVE  /\ PlacesInv(o.jobs, o.completions, o.state)
         /\ \E s \in {"queued", "device"} : o.state = [state EXCEPT ![r] = s]
<1>1. /\ state \in [Requests -> States]
      /\ \A x \in completionQueue : x.req \in Requests /\ state[x.req] = "device"
      /\ \A x, y \in completionQueue : x.req = y.req => x = y
      /\ \A c \in Core : \A i \in 1 .. Len(jobs[c]) :
           jobs[c][i] \in Requests /\ state[jobs[c][i]] = "queued"
      /\ \A c, d \in Core : \A i \in 1 .. Len(jobs[c]), k \in 1 .. Len(jobs[d]) :
           jobs[c][i] = jobs[d][k] => c = d /\ i = k
  BY DEF PlacesInv
<1>2. /\ \A x \in completionQueue : x.req # r
      /\ \A c \in Core : \A i \in 1 .. Len(jobs[c]) : jobs[c][i] # r
  BY <1>1 DEF Begun
<1>3. CASE numCores = 0
  <2>1. PICK e \in Execute(r, q, t) :
          o = [jobs |-> jobs, busy |-> busy, events |-> e.events,
               last |-> e.last, completions |-> e.completions,
               state |-> [state EXCEPT ![r] = "device"]]
    BY <1>3 DEF Submissions
  <2>2. PICK d \in DeviceLatency :
          e.completions = completionQueue \cup {Finished(r, t + d)}
    BY ExecuteFinishes
  <2>3. PICK su : su = [state EXCEPT ![r] = "device"]
    OBVIOUS
  <2>4. /\ su \in [Requests -> States] /\ su[r] = "device"
        /\ \A x \in Requests : x # r => su[x] = state[x]
    BY <1>1, <2>3 DEF States
  <2>5. PICK y : y = Finished(r, t + d)
    OBVIOUS
  <2>6. y.req = r
    BY <2>5 DEF Finished
  <2>7. PICK cq : cq = completionQueue \cup {y}
    OBVIOUS
  <2>8. /\ \A x \in cq : x.req \in Requests /\ su[x.req] = "device"
        /\ \A x, z \in cq : x.req = z.req => x = z
    BY <1>1, <1>2, <2>4, <2>6, <2>7
  <2>9. \A c \in Core : \A i \in 1 .. Len(jobs[c]) :
          jobs[c][i] \in Requests /\ su[jobs[c][i]] = "queued"
    BY <1>1, <1>2, <2>4
  <2>10. PlacesInv(jobs, cq, su)
    BY <1>1, <2>4, <2>8, <2>9 DEF PlacesInv
  <2>11. o.jobs = jobs /\ o.completions = cq /\ o.state = su
    BY <2>1, <2>2, <2>3, <2>5, <2>7
  <2> QED BY <2>3, <2>10, <2>11
<1>4. CASE numCores # 0
  <2>1. PICK c \in leastBusyCPU, d \in CoreLatency :
          o = [jobs |-> [jobs EXCEPT ![c] = Append(@, r)],
               busy |-> [busy EXCEPT ![c] = TRUE],
               events |-> IF busy[c] THEN q ELSE insertEvent(q, c, t + d),
               last |-> lastScheduled, completions |-> completionQueue,
               state |-> [state EXCEPT ![r] = "queued"]]
    BY <1>4 DEF Submissions
  <2>2. c \in Core
    BY DEF leastBusyCPU
  <2>3. PICK su : su = [state EXCEPT ![r] = "queued"]
    OBVIOUS
  <2>4. /\ su \in [Requests -> States] /\ su[r] = "queued"
        /\ \A x \in Requests : x # r => su[x] = state[x]
    BY <1>1, <2>3 DEF States
  <2>5. PICK a : a = jobs[c]
    OBVIOUS
  <2>6. a \in Seq(Requests \cup Nat) /\ Len(a) \in Nat
    BY <2>2, <2>5 DEF CoreTypes
  <2>7. PICK b : b = Append(a, r)
    OBVIOUS
  <2>8. /\ Len(b) = Len(a) + 1 /\ b[Len(a) + 1] = r
        /\ \A i \in 1 .. Len(a) : b[i] = a[i]
    BY <2>6, <2>7
  <2>9. PICK j : j = [jobs EXCEPT ![c] = b]
    OBVIOUS
  <2>10. j[c] = b /\ \A x \in Core : x # c => j[x] = jobs[x]
    BY <2>2, <2>9 DEF CoreTypes
  <2>11. \A i \in 1 .. Len(b) : i \in 1 .. Len(a) \/ (i = Len(a) + 1 /\ b[i] = r)
    BY <2>6, <2>8
  <2>12. ASSUME NEW x \in Core, NEW i \in 1 .. Len(j[x])
         PROVE  /\ j[x][i] \in Requests /\ su[j[x][i]] = "queued"
                /\ \/ i \in 1 .. Len(jobs[x]) /\ j[x][i] = jobs[x][i]
                   \/ x = c /\ i = Len(a) + 1 /\ j[x][i] = r
    <3>1. CASE x = c
      BY <1>1, <1>2, <2>4, <2>5, <2>8, <2>10, <2>11, <2>12, <3>1
    <3>2. CASE x # c
      BY <1>1, <1>2, <2>4, <2>10, <2>12, <3>2
    <3> QED BY <3>1, <3>2
  <2>13. ASSUME NEW x \in Core, NEW y \in Core, NEW i \in 1 .. Len(j[x]),
                NEW k \in 1 .. Len(j[y]), j[x][i] = j[y][k]
         PROVE  x = y /\ i = k
    <3>1. CASE j[x][i] = r
      <4>1. x = c /\ i = Len(a) + 1
        BY ONLY <1>2, <2>12, <3>1, i \in 1 .. Len(j[x]), x \in Core
      <4>2. y = c /\ k = Len(a) + 1
        <5>1. j[y][k] = r
          BY ONLY <2>13, <3>1
        <5> QED BY ONLY <1>2, <2>12, <5>1, k \in 1 .. Len(j[y]), y \in Core
      <4> QED BY ONLY <4>1, <4>2
    <3>2. CASE j[x][i] # r
      <4>1. /\ i \in 1 .. Len(jobs[x]) /\ jobs[x][i] = j[x][i]
            /\ k \in 1 .. Len(jobs[y]) /\ jobs[y][k] = j[y][k]
        BY <2>12, <2>13, <3>2
      <4>2. jobs[x][i] = jobs[y][k]
        BY <2>13, <4>1
      <4> QED BY ONLY <1>1, <4>1, <4>2, x \in Core, y \in Core
    <3> QED BY <3>1, <3>2
  <2>14. \A x \in completionQueue : x.req \in Requests /\ su[x.req] = "device"
    BY <1>1, <1>2, <2>4
  <2>15. PlacesInv(j, completionQueue, su)
    BY <1>1, <2>4, <2>12, <2>13, <2>14 DEF PlacesInv
  <2>16. [jobs EXCEPT ![c] = Append(@, r)] = j
    BY <2>5, <2>7, <2>9
  <2>17. o.jobs = j /\ o.completions = completionQueue /\ o.state = su
    BY <2>1, <2>3, <2>16
  <2> QED BY <2>3, <2>15, <2>17
<1> QED BY <1>3, <1>4

LEMMA JobPlaced ==
  ASSUME CoreTypes(jobs, busy), PlacesInv(jobs, completionQueue, state),
         NEW c \in Core, jobs[c] # <<>>, NEW r, r = Head(jobs[c]),
         NEW cq, NEW t, cq = completionQueue \cup {Finished(r, t)},
         NEW j, j = [jobs EXCEPT ![c] = Tail(@)],
         NEW su, su = [state EXCEPT ![r] = "device"]
  PROVE  /\ PlacesInv(j, cq, su)
         /\ r \in Requests /\ state[r] = "queued"
<1>1. /\ state \in [Requests -> States]
      /\ \A x \in completionQueue : x.req \in Requests /\ state[x.req] = "device"
      /\ \A x, y \in completionQueue : x.req = y.req => x = y
      /\ \A x \in Core : \A i \in 1 .. Len(jobs[x]) :
           jobs[x][i] \in Requests /\ state[jobs[x][i]] = "queued"
      /\ \A x, y \in Core : \A i \in 1 .. Len(jobs[x]), k \in 1 .. Len(jobs[y]) :
           jobs[x][i] = jobs[y][k] => x = y /\ i = k
  BY DEF PlacesInv
<1>2. PICK a : a = jobs[c]
  OBVIOUS
<1>3. a \in Seq(Requests \cup Nat) /\ a # <<>>
  BY <1>2 DEF CoreTypes
<1>4. PICK b : b = Tail(a)
  OBVIOUS
<1>5. /\ Len(a) \in Nat /\ 1 \in 1 .. Len(a) /\ r = a[1]
      /\ Len(b) = Len(a) - 1 /\ \A i \in 1 .. Len(b) : b[i] = a[i + 1]
  BY <1>2, <1>3, <1>4
<1>6. r \in Requests /\ state[r] = "queued"
  BY <1>1, <1>2, <1>5
<1>7. /\ su \in [Requests -> States] /\ su[r] = "device"
      /\ \A x \in Requests : x # r => su[x] = state[x]
  BY <1>1, <1>6 DEF States
<1>8. j[c] = b /\ \A x \in Core : x # c => j[x] = jobs[x]
  BY <1>2, <1>4 DEF CoreTypes
<1>9. ASSUME NEW x \in Core, NEW i \in 1 .. Len(j[x])
      PROVE  \E k \in 1 .. Len(jobs[x]) :
               /\ j[x][i] = jobs[x][k] /\ (x = c => k = i + 1 /\ k # 1)
               /\ x # c => k = i
  <2>1. CASE x = c
    <3>1. i \in 1 .. Len(b)
      BY <1>8, <1>9, <2>1
    <3>2. i + 1 \in 1 .. Len(a) /\ i + 1 # 1
      BY <1>5, <3>1
    <3>3. j[x][i] = a[i + 1]
      BY <1>5, <1>8, <2>1, <3>1
    <3> QED BY <1>2, <2>1, <3>2, <3>3
  <2>2. CASE x # c
    BY <1>8, <1>9, <2>2
  <2> QED BY <2>1, <2>2
<1>10. ASSUME NEW x \in Core, NEW i \in 1 .. Len(j[x])
       PROVE  j[x][i] \in Requests /\ su[j[x][i]] = "queued"
  <2>1. PICK k \in 1 .. Len(jobs[x]) :
          j[x][i] = jobs[x][k] /\ (x = c => k # 1)
    BY <1>9
  <2>2. jobs[x][k] # r
    <3>1. 1 \in 1 .. Len(jobs[c]) /\ jobs[c][1] = r
      BY <1>2, <1>5
    <3>2. jobs[x][k] = jobs[c][1] => x = c /\ k = 1
      BY <1>1, <3>1
    <3> QED BY <2>1, <3>1, <3>2
  <2> QED BY <1>1, <1>7, <2>1, <2>2
<1>11. ASSUME NEW x \in Core, NEW y \in Core, NEW i \in 1 .. Len(j[x]),
              NEW k \in 1 .. Len(j[y]), j[x][i] = j[y][k]
       PROVE  x = y /\ i = k
  <2>1. PICK u \in 1 .. Len(jobs[x]) :
          /\ j[x][i] = jobs[x][u] /\ (x = c => u = i + 1) /\ (x # c => u = i)
    BY <1>9
  <2>2. PICK v \in 1 .. Len(jobs[y]) :
          /\ j[y][k] = jobs[y][v] /\ (y = c => v = k + 1) /\ (y # c => v = k)
    BY <1>9
  <2>3. x = y /\ u = v
    BY <1>1, <1>11, <2>1, <2>2
  <2>4. Len(j[x]) \in Nat \/ i \in Int
    OBVIOUS
  <2> QED BY <2>1, <2>2, <2>3, <2>4
<1>12. PICK f : f = Finished(r, t)
  OBVIOUS
<1>13. f.req = r /\ cq = completionQueue \cup {f}
  BY <1>12 DEF Finished
<1>14. \A x \in completionQueue : x.req # r
  BY <1>1, <1>6
<1>15. /\ \A x \in cq : x.req \in Requests /\ su[x.req] = "device"
       /\ \A x, y \in cq : x.req = y.req => x = y
  BY <1>1, <1>6, <1>7, <1>13, <1>14
<1> QED BY <1>6, <1>7, <1>10, <1>11, <1>15 DEF PlacesInv

LEMMA CompletionPlaced ==
  ASSUME PlacesInv(jobs, completionQueue, state), NEW x \in completionQueue,
         NEW cq, cq = completionQueue \ {x},
         NEW su, su = [state EXCEPT ![x.req] = "done"]
  PROVE  /\ PlacesInv(jobs, cq, su) /\ Progress(state, su)
         /\ x.req \in InUse(state)
<1>1. /\ state \in [Requests -> States]
      /\ \A y \in completionQueue : y.req \in Requests /\ state[y.req] = "device"
      /\ \A y, z \in completionQueue : y.req = z.req => y = z
      /\ \A c \in Core : \A i \in 1 .. Len(jobs[c]) :
           jobs[c][i] \in Requests /\ state[jobs[c][i]] = "queued"
  BY DEF PlacesInv
<1>2. PICK r \in Requests : r = x.req /\ state[r] = "device"
  BY <1>1
<1>3. /\ su \in [Requests -> States] /\ su[r] = "done"
      /\ \A y \in Requests : y # r => su[y] = state[y]
  BY <1>1, <1>2 DEF States
<1>4. \A y \in cq : y.req \in Requests /\ su[y.req] = "device"
  BY <1>1, <1>2, <1>3
<1>5. \A c \in Core : \A i \in 1 .. Len(jobs[c]) :
        jobs[c][i] \in Requests /\ su[jobs[c][i]] = "queued"
  BY <1>1, <1>2, <1>3
<1>6. PlacesInv(jobs, cq, su)
  BY <1>1, <1>3, <1>4, <1>5 DEF PlacesInv
<1>7. Progress(state, su)
  BY <1>1, <1>2, <1>3 DEF Progress, Begun
<1> QED BY <1>2, <1>6, <1>7 DEF InUse

-----------------------------------------------------------------------------
(***************************************************************************)
(* The trace replayer: what it knows of its lines outlives the progress of *)
(* requests that were submitted.                                           *)
(***************************************************************************)
LEMMA TraceProgress ==
  ASSUME load \in TraceLoad, 1 .. Len(load.lines) \subseteq Requests,
         NEW g, NEW st, NEW su, Progress(st, su), TraceCore(g, st)
  PROVE  TraceCore(g, su)
<1>1. \A r \in Requests : Begun(su, r) <=> Begun(st, r)
  BY DEF Progress
<1>2. AllSubmitted(st) => AllSubmitted(su)
  <2>1. /\ IclCount(st) \in Nat /\ IclCount(su) \in Nat
        /\ IclCount(st) <= IclCount(su)
    BY IclGrows
  <2>2. load.limit \in Nat
    BY DEF TraceLoad
  <2>3. IclCount(st) > load.limit => IclCount(su) > load.limit
    BY <2>1, <2>2
  <2> QED BY <1>1, <2>3 DEF AllSubmitted
<1> QED BY <1>1, <1>2 DEF TraceCore

(***************************************************************************)
(* parseLine: the next line is the next id, at the end all is submitted.   *)
(***************************************************************************)
AllBegun(g, st) ==
  /\ IsGenerator(g)
  /\ g.reserve = FALSE /\ g.sync \in BOOLEAN /\ g.depth \in Nat
  /\ g.status = "running" /\ g.depth <= g.count
  /\ g.pos \in 0 .. Len(load.lines) /\ g.count = MatchedUpTo(g.pos)
  /\ \A r \in Requests : Begun(st, r) <=> r \in 1 .. g.count
  /\ load.maxIO # 0 => g.count < load.maxIO

LEMMA LineParsed ==
  ASSUME load \in TraceLoad, 1 .. Len(load.lines) \subseteq Requests,
         NEW q, InOrder(q), NEW st, NEW g, AllBegun(g, st),
         NEW u, u = parseLine(g, q, st)
  PROVE  /\ TraceCore(u[1], st)
         /\ u[1].depth = g.depth /\ u[1].sync = g.sync
         /\ SameHostEvents(q, u[2])
         /\ ~u[1].reserve => u[1].count # 0 /\ u[1].status = "running"
<1> DEFINE lines == {i \in Matched : i > g.pos}
<1>1. /\ Len(load.lines) \in Nat /\ Matched \subseteq 1 .. Len(load.lines)
      /\ Cardinality(Matched) \in Nat /\ g.count \in Nat /\ g.pos \in Nat
      /\ load.maxIO \in Nat /\ IsGenerator(g)
  BY MatchedLemma DEF IsGenerator, TraceLoad, AllBegun
<1>2. SameHostEvents(q, q)
  BY DEF SameHostEvents
<1>5. /\ g.reserve = FALSE /\ g.sync \in BOOLEAN /\ g.depth \in Nat
      /\ g.status = "running" /\ g.depth <= g.count
      /\ \A r \in Requests : Begun(st, r) <=> r \in 1 .. g.count
      /\ g.pos \in 0 .. Len(load.lines) /\ g.count = MatchedUpTo(g.pos)
      /\ load.maxIO # 0 => g.count < load.maxIO
  BY DEF AllBegun
<1>3. CASE lines = {}
  <2>1. PICK eof : eof = [g EXCEPT !.pos = Len(load.lines), !.reserve = TRUE]
    OBVIOUS
  <2>2. /\ eof.pos = Len(load.lines) /\ eof.reserve = TRUE
        /\ eof.count = g.count /\ eof.depth = g.depth /\ eof.sync = g.sync
        /\ eof.status = g.status
    BY <1>1, <1>5, <2>1 DEF IsGenerator
  <2>3. /\ g.count = Cardinality(Matched)
        /\ MatchedUpTo(Len(load.lines)) = Cardinality(Matched)
    BY <1>1, <1>3, <1>5, LastMatched
  <2>4. Target = g.count
    BY <1>1, <1>5, <2>3 DEF Target, Smaller
  <2>5. AllSubmitted(st)
    BY <1>5, <2>4 DEF AllSubmitted
  <2>6. CASE g.depth = 0
    <3>1. PICK v : v = [eof EXCEPT !.status = "ended"]
      OBVIOUS
    <3>2. PICK p : p = removeEvent(q, StatEvent)
      OBVIOUS
    <3>3. u[1] = v /\ u[2] = p
      BY <1>3, <2>1, <2>6, <3>1, <3>2 DEF parseLine, endCallback
    <3>4. /\ v.pos = Len(load.lines) /\ v.reserve = TRUE
          /\ v.count = g.count /\ v.depth = g.depth /\ v.sync = g.sync
          /\ v.status = "ended"
      BY <1>1, <2>2, <2>1, <3>1 DEF IsGenerator
    <3>5. TraceCore(v, st)
      <4>1. v.pos \in 0 .. Len(load.lines) /\ v.count = MatchedUpTo(v.pos)
        BY ONLY <1>1, <2>3, <3>4
      <4>2. \A r \in Requests : Begun(st, r) => r \in 1 .. v.count
        BY ONLY <1>5, <3>4
      <4>3. v.depth \in Nat /\ v.depth <= v.count /\ v.depth = 0
        BY ONLY <1>5, <2>6, <3>4
      <4> QED BY ONLY <1>5, <2>5, <3>4, <4>1, <4>2, <4>3 DEF TraceCore
    <3>6. SameHostEvents(q, p)
      BY <3>2, StatRemoved
    <3> QED BY <3>3, <3>4, <3>5, <3>6
  <2>7. CASE g.depth # 0
    <3>1. u[1] = eof /\ u[2] = q
      BY <1>3, <2>1, <2>7 DEF parseLine
    <3>2. TraceCore(eof, st)
      <4>1. eof.pos \in 0 .. Len(load.lines) /\ eof.count = MatchedUpTo(eof.pos)
        BY ONLY <1>1, <2>2, <2>3
      <4>2. \A r \in Requests : Begun(st, r) => r \in 1 .. eof.count
        BY ONLY <1>5, <2>2
      <4>3. eof.status # "ended" /\ eof.depth <= eof.count /\ eof.depth \in Nat
        BY ONLY <1>5, <2>2
      <4> QED BY ONLY <1>5, <2>2, <2>5, <4>1, <4>2, <4>3 DEF TraceCore
    <3> QED BY <1>2, <2>2, <3>1, <3>2
  <2> QED BY <2>6, <2>7
<1>4. CASE lines # {}
  <2>1. lines \subseteq Nat
    <3>1. PICK n \in Nat : n = Len(load.lines)
      BY ONLY <1>1
    <3>2. \A i \in lines : i \in 1 .. n
      BY ONLY <1>1, <3>1
    <3> HIDE DEF lines
    <3> QED BY ONLY <3>2
  <2>2. PICK n \in lines : n = Min(lines) /\ \A i \in lines : n <= i
    BY ONLY <1>4, <2>1, MinLemma
  <2>3. PICK b \in BOOLEAN : b <=> IclCount(st) > load.limit
    <3>1. CASE IclCount(st) > load.limit
      BY <3>1
    <3>2. CASE ~(IclCount(st) > load.limit)
      BY <3>2
    <3> QED BY <3>1, <3>2
  <2>4. PICK h : h = [g EXCEPT !.pos = n, !.line = load.lines[n],
                               !.count = @ + 1,
                               !.reserve = @ \/ IclCount(st) > load.limit]
    OBVIOUS
  <2>5. u[1] = h /\ u[2] = q
    BY <1>4, <2>2, <2>4 DEF parseLine
  <2>6. /\ h.pos = n /\ h.count = g.count + 1 /\ h.reserve = b
        /\ h.depth = g.depth /\ h.sync = g.sync /\ h.status = g.status
    BY <1>1, <1>5, <2>3, <2>4 DEF IsGenerator
  <2>7. h.count = MatchedUpTo(n)
    <3>1. n \in Matched /\ g.pos < n
      BY <1>1, <2>2
    <3> QED BY <1>1, <1>5, <2>2, <2>6, <3>1, NextMatched
  <2>8. n \in 0 .. Len(load.lines)
    BY <1>1, <2>2
  <2>9. b => AllSubmitted(st)
    BY <2>3 DEF AllSubmitted
  <2>10. \A r \in Requests : Begun(st, r) => r \in 1 .. h.count
    BY <1>1, <1>5, <2>6
  <2>11. h.count - 1 = g.count /\ h.count # 0 /\ g.depth < h.count
         /\ g.depth <= h.count /\ (load.maxIO # 0 => h.count <= load.maxIO)
    <3>1. PICK c \in Nat, d \in Nat, m \in Nat :
            c = g.count /\ d = g.depth /\ m = load.maxIO
      BY ONLY <1>1, <1>5
    <3>2. d <= c /\ (m # 0 => c < m)
      BY ONLY <1>5, <3>1
    <3>3. c + 1 - 1 = c /\ c + 1 # 0 /\ d < c + 1 /\ (m # 0 => c + 1 <= m)
      BY ONLY <3>2
    <3> QED BY ONLY <2>6, <3>1, <3>3
  <2>12. TraceCore(h, st)
    <3>1. \A r \in Requests : Begun(st, r) <=> r \in 1 .. h.count - 1
      BY ONLY <1>5, <2>11
    <3>2. h.count = MatchedUpTo(h.pos) /\ h.pos \in 0 .. Len(load.lines)
      BY ONLY <2>6, <2>7, <2>8
    <3> QED BY ONLY <1>5, <2>6, <2>9, <2>10, <2>11, <3>1, <3>2 DEF TraceCore
  <2> QED BY ONLY <1>2, <1>5, <2>5, <2>6, <2>11, <2>12
<1> QED BY <1>3, <1>4

(***************************************************************************)
(* submitIO and what follows it: the queue is one deeper, and the next     *)
(* submission is scheduled only where there is room for it.                *)
(***************************************************************************)
ReadyForLine(g, q, st) ==
  /\ IsGenerator(g) /\ TraceCore(g, st) /\ g.reserve = FALSE /\ g.sync = FALSE
  /\ g.count # 0 /\ g.status = "running"
  /\ load.mode = "sync" => g.depth = 0
  /\ load.mode = "async" => g.depth < Bound
  /\ ~Waits(q, BeginEvent) /\ ~Waits(q, SubmitEvent)

Takes(st, r, su) ==
  \E s \in {"queued", "device"} : su = [st EXCEPT ![r] = s]

LEMMA LineIsNew ==
  ASSUME load \in TraceLoad, 1 .. Len(load.lines) \subseteq Requests,
         NEW g, NEW q, NEW st, ReadyForLine(g, q, st)
  PROVE  g.count \in Requests /\ ~Begun(st, g.count)
<1>1. /\ Len(load.lines) \in Nat
      /\ Cardinality(Matched) \in Nat /\ Cardinality(Matched) <= Len(load.lines)
      /\ MatchedUpTo(g.pos) \in 0 .. Cardinality(Matched)
  BY MatchedLemma
<1>2. /\ g.count = MatchedUpTo(g.pos) /\ g.count # 0
      /\ \A r \in Requests : Begun(st, r) <=> r \in 1 .. g.count - 1
  BY DEF ReadyForLine, TraceCore
<1>3. PICK c \in Nat, m \in Nat, n \in Nat :
        c = g.count /\ m = Cardinality(Matched) /\ n = Len(load.lines)
  BY <1>1, <1>2
<1>4. c \in 1 .. n /\ c \notin 1 .. c - 1
  BY ONLY <1>1, <1>2, <1>3
<1> QED BY <1>2, <1>3, <1>4

LEMMA SubmitScheduledTrace ==
  ASSUME NEW g, NEW q, NEW r, NEW st, TraceCore(g, st), g.reserve = FALSE,
         g.sync = FALSE, g.count # 0,
         load.mode = "sync" => g.depth = 0,
         load.mode = "async" => g.depth < Bound /\ Bound \in Nat,
         ~Waits(q, BeginEvent), Waits(r, BeginEvent) <=> Waits(q, BeginEvent)
  PROVE  TraceInv(g, r, st)
<1>1. g.depth \in Nat
  BY DEF TraceCore
<1>2. /\ load.mode = "sync" => g.depth <= 1
      /\ load.mode = "async" => g.depth <= Bound
  BY ONLY <1>1, load.mode = "sync" => g.depth = 0,
     load.mode = "async" => g.depth < Bound /\ Bound \in Nat
<1> QED BY <1>2 DEF TraceInv, TraceDepth

LEMMA LineSubmitted ==
  ASSUME load \in TraceLoad, 1 .. Len(load.lines) \subseteq Requests,
         NEW now \in Nat, NEW q, InOrder(q), NotBefore(q, now),
         NEW st \in [Requests -> States], NEW g, ReadyForLine(g, q, st),
         NEW o, o.events = q,
         Takes(st, g.count, o.state), NEW u, u = AfterSubmit(g, o, now)
  PROVE  TraceInv(u[1], u[2], o.state) /\ u[1].depth = g.depth + 1
<1>0. PICK su : su = o.state
  OBVIOUS
<1>1. /\ g.count \in Requests /\ ~Begun(st, g.count) /\ g.count \in Nat
      /\ g.pos \in Nat /\ load.maxIO \in Nat /\ load.depth \in Nat
      /\ load.mode \in {"sync", "async", "strict"} /\ load.kind = "trace"
      /\ LoadTypes
  <2>1. LoadTypes
    BY DEF LoadTypes, TraceLoad
  <2> QED BY <2>1, LineIsNew DEF ReadyForLine, IsGenerator, TraceLoad
<1>2. /\ g.reserve = FALSE /\ g.sync = FALSE /\ g.depth \in Nat
      /\ g.count # 0 /\ g.status = "running" /\ IsGenerator(g)
      /\ g.pos \in 0 .. Len(load.lines) /\ g.count = MatchedUpTo(g.pos)
      /\ \A r \in Requests : Begun(st, r) <=> r \in 1 .. g.count - 1
      /\ load.maxIO # 0 => g.count <= load.maxIO
      /\ g.depth < g.count
      /\ load.mode = "sync" => g.depth = 0
      /\ load.mode = "async" => g.depth < Bound
      /\ ~Waits(q, BeginEvent) /\ ~Waits(q, SubmitEvent)
  BY DEF ReadyForLine, TraceCore
<1>3. \A r \in Requests : Begun(su, r) <=> r \in 1 .. g.count
  <2>1. ASSUME NEW r \in Requests
        PROVE  Begun(su, r) <=> r = g.count \/ Begun(st, r)
    <3>1. PICK s \in {"queued", "device"} : su = [st EXCEPT ![g.count] = s]
      BY <1>0 DEF Takes
    <3> QED BY <1>1, <3>1 DEF Begun, States
  <2>2. \A r : r \in 1 .. g.count <=> r = g.count \/ r \in 1 .. g.count - 1
    <3>1. PICK c \in Nat \ {0} : c = g.count
      BY ONLY <1>1, <1>2
    <3> QED BY ONLY <3>1
  <2> QED BY ONLY <1>2, <2>1, <2>2
<1>4. PICK h : h = [g EXCEPT !.depth = @ + 1]
  OBVIOUS
<1>5. /\ h.count = g.count /\ h.pos = g.pos /\ h.reserve = FALSE
      /\ h.sync = FALSE /\ h.status = "running" /\ h.depth = g.depth + 1
      /\ h.depth \in Nat /\ h.depth <= h.count /\ IsGenerator(h)
  <2>1. IsGenerator(h) /\ h.depth = g.depth + 1 /\ h.count = g.count
    BY ONLY <1>2, <1>4 DEF IsGenerator
  <2>2. h.pos = g.pos /\ h.reserve = g.reserve /\ h.sync = g.sync
    BY ONLY <1>2, <1>4 DEF IsGenerator
  <2>3. h.status = "running" /\ h.reserve = FALSE /\ h.sync = FALSE
    BY ONLY <1>2, <1>4, <2>2 DEF IsGenerator
  <2>4. h.depth \in Nat /\ h.depth <= h.count
    BY ONLY <1>1, <1>2, <2>1
  <2> QED BY ONLY <2>1, <2>2, <2>3, <2>4
<1>6. Bound \in Nat
  BY ONLY <1>1 DEF Bound
<1>7. /\ load.mode = "sync" => h.depth <= 1
      /\ load.mode = "async" => h.depth <= Bound
  BY ONLY <1>2, <1>5, <1>6
<1>8. CASE load.maxIO # 0 /\ g.count >= load.maxIO
  <2>1. PICK v : v = [h EXCEPT !.reserve = TRUE]
    OBVIOUS
  <2>2. u[1] = v /\ u[2] = q
    BY <1>4, <1>8, <2>1 DEF AfterSubmit
  <2>3. /\ v.count = g.count /\ v.pos = g.pos /\ v.reserve = TRUE
        /\ v.sync = FALSE /\ v.status = "running" /\ v.depth = g.depth + 1
        /\ v.depth \in Nat /\ v.depth <= v.count
    BY ONLY <1>5, <2>1 DEF IsGenerator
  <2>4. Target = g.count
    <3>1. g.count = load.maxIO
      BY ONLY <1>1, <1>2, <1>8
    <3>2. g.count <= Cardinality(Matched) /\ Cardinality(Matched) \in Nat
      <4>1. /\ MatchedUpTo(g.pos) \in 0 .. Cardinality(Matched)
            /\ Cardinality(Matched) \in Nat
        BY MatchedLemma
      <4> QED BY ONLY <1>2, <4>1
    <3> QED BY ONLY <1>1, <1>8, <3>1, <3>2 DEF Target, Smaller
  <2>5. AllSubmitted(su)
    BY ONLY <1>3, <2>4 DEF AllSubmitted
  <2>6. TraceCore(v, su)
    <3>1. v.pos \in 0 .. Len(load.lines) /\ v.count = MatchedUpTo(v.pos)
      BY ONLY <1>2, <2>3
    <3>2. \A r \in Requests : Begun(su, r) => r \in 1 .. v.count
      BY ONLY <1>3, <2>3
    <3> QED BY ONLY <2>3, <2>5, <3>1, <3>2 DEF TraceCore
  <2>7. TraceDepth(v, q)
    BY ONLY <1>2, <1>5, <1>7, <2>3 DEF TraceDepth
  <2> QED BY ONLY <1>0, <2>2, <2>3, <2>6, <2>7 DEF TraceInv
<1>9. CASE ~(load.maxIO # 0 /\ g.count >= load.maxIO)
  <2>1. PICK p : p = parseLine(h, q, su)
    OBVIOUS
  <2>2. load.maxIO # 0 => h.count < load.maxIO
    BY ONLY <1>1, <1>5, <1>9
  <2>3. /\ TraceCore(p[1], su)
        /\ p[1].depth = h.depth /\ p[1].sync = h.sync
        /\ SameHostEvents(q, p[2])
        /\ ~p[1].reserve => p[1].count # 0 /\ p[1].status = "running"
    <3>1. AllBegun(h, su)
      BY ONLY <1>2, <1>3, <1>5, <2>2 DEF AllBegun
    <3> QED BY <2>1, <3>1, LineParsed
  <2>4. ~Waits(p[2], BeginEvent) /\ ~Waits(p[2], SubmitEvent)
    BY ONLY <1>2, <2>3 DEF SameHostEvents
  <2>5. Drops(q, p, now)
    BY <1>1, <1>5, <2>1, ParseLineLemma
  <2>6. IsGenerator(p[1]) /\ InOrder(p[2])
    BY ONLY <2>5 DEF Drops, Host
  <2>7. p[1].reserve \in BOOLEAN
    BY ONLY <2>3 DEF TraceCore
  <2>8. CASE p[1].reserve
    <3>1. u = p
      BY <1>0, <1>4, <1>9, <2>1, <2>8 DEF AfterSubmit
    <3>2. TraceDepth(p[1], p[2])
      BY ONLY <1>2, <1>5, <1>7, <2>3, <2>4 DEF TraceDepth
    <3> QED BY ONLY <1>0, <1>5, <2>3, <3>1, <3>2 DEF TraceInv
  <2>9. CASE ~p[1].reserve /\ load.mode = "strict"
    <3>1. PICK t : t = Clamped(LineTick(p[1]), now)
      OBVIOUS
    <3>2. PICK e : e = insertEvent(p[2], SubmitEvent, t)
      OBVIOUS
    <3>3. u[1] = p[1] /\ u[2] = e
      BY <1>0, <1>4, <1>9, <2>1, <2>9, <3>1, <3>2 DEF AfterSubmit
    <3>4. t \in Nat
      BY <2>6, <3>1, LineTickNat DEF Clamped
    <3>5. Waits(e, BeginEvent) <=> Waits(p[2], BeginEvent)
      BY <2>6, <3>2, <3>4, SubmitScheduled
    <3>6. p[1].reserve = FALSE /\ p[1].sync = FALSE
      BY ONLY <1>5, <2>3, <2>7, <2>9
    <3>7. TraceInv(p[1], e, su)
      BY <2>3, <2>4, <2>9, <3>5, <3>6, SubmitScheduledTrace
    <3> QED BY <1>0, <1>5, <2>3, <3>3, <3>7
  <2>10. CASE ~p[1].reserve /\ load.mode = "async"
    <3>1. u = rescheduleSubmit(p[1], p[2], now, SubmissionLatency)
      BY <1>0, <1>4, <1>9, <2>1, <2>10 DEF AfterSubmit
    <3>2. p[1].reserve = FALSE /\ p[1].sync = FALSE
      BY ONLY <1>5, <2>3, <2>7, <2>10
    <3>3. CASE p[1].depth >= load.depth
      <4>1. PICK v : v = [p[1] EXCEPT !.sync = TRUE]
        OBVIOUS
      <4>2. u[1] = v /\ u[2] = p[2]
        BY <2>10, <3>1, <3>3, <4>1 DEF rescheduleSubmit
      <4>3. /\ v.count = p[1].count /\ v.pos = p[1].pos
            /\ v.reserve = FALSE /\ v.sync = TRUE
            /\ v.status = p[1].status /\ v.depth = p[1].depth
        BY ONLY <2>6, <3>2, <4>1 DEF IsGenerator
      <4>4. TraceCore(v, su)
        BY ONLY <2>3, <3>2, <4>3 DEF TraceCore
      <4>5. TraceDepth(v, p[2])
        BY ONLY <1>5, <1>7, <2>3, <2>4, <2>10, <4>3 DEF TraceDepth
      <4> QED BY ONLY <1>0, <1>5, <2>3, <4>2, <4>3, <4>4, <4>5 DEF TraceInv
    <3>4. CASE ~(p[1].depth >= load.depth)
      <4>1. PICK e : e = insertEvent(p[2], SubmitEvent, now + SubmissionLatency)
        OBVIOUS
      <4>2. u[1] = p[1] /\ u[2] = e
        BY <2>10, <3>1, <3>4, <4>1 DEF rescheduleSubmit
      <4>3. now + SubmissionLatency \in Nat
        BY StackAssumption
      <4>4. Waits(e, BeginEvent) <=> Waits(p[2], BeginEvent)
        BY <2>6, <4>1, <4>3, SubmitScheduled
      <4>5. p[1].depth < Bound
        BY ONLY <1>1, <1>5, <2>3, <3>4 DEF Bound
      <4>6. TraceInv(p[1], e, su)
        BY <1>6, <2>3, <2>4, <2>10, <3>2, <4>4, <4>5, SubmitScheduledTrace
      <4> QED BY ONLY <1>0, <1>5, <2>3, <4>2, <4>6
    <3> QED BY <3>3, <3>4
  <2>11. CASE ~p[1].reserve /\ load.mode = "sync"
    <3>1. u = p
      BY <1>0, <1>4, <1>9, <2>1, <2>11 DEF AfterSubmit
    <3>2. TraceDepth(p[1], p[2])
      BY ONLY <1>2, <1>5, <1>7, <2>3, <2>4, <2>11 DEF TraceDepth
    <3> QED BY ONLY <1>0, <1>5, <2>3, <3>1, <3>2 DEF TraceInv
  <2> QED BY ONLY <1>1, <2>8, <2>9, <2>10, <2>11
<1> QED BY <1>8, <1>9

-----------------------------------------------------------------------------
(***************************************************************************)
(* The workload is the same in the next state: so is what the invariants   *)
(* say of it.                                                              *)
(***************************************************************************)
LEMMA TraceNext ==
  ASSUME UNCHANGED load, TraceInv(gen', eventQueue', state')
  PROVE  TraceInv(gen, eventQueue, state)'
<1>1. PICK l : l = load
  OBVIOUS
<1>2. load' = l
  BY <1>1
<1>3. Matched' = Matched
  BY <1>1, <1>2 DEF Matched
<1>4. IclCount(state)' = IclCount(state')
  BY <1>1, <1>2, <1>3 DEF IclCount, MatchedUpTo
<1>5. AllSubmitted(state)' <=> AllSubmitted(state')
  BY <1>1, <1>2, <1>3, <1>4 DEF AllSubmitted, Target, Smaller, Begun
<1>6. TraceCore(gen, state)' <=> TraceCore(gen', state')
  BY <1>1, <1>2, <1>3, <1>5 DEF TraceCore, MatchedUpTo, Begun
<1>7. TraceDepth(gen, eventQueue)' <=> TraceDepth(gen', eventQueue')
  BY <1>1, <1>2 DEF TraceDepth, Bound, Waits, ScheduledAt, Places
<1> QED BY <1>6, <1>7 DEF TraceInv

LEMMA GenNext ==
  ASSUME /\ load'.depth = load.depth /\ load'.ioSize = load.ioSize
         /\ load'.runtime = load.runtime,
         GenInv(gen', eventQueue', state', simTick')
  PROVE  GenInv(gen, eventQueue, state, simTick)'
<1>1. Bound' = Bound
  BY DEF Bound
<1>2. AllGenerated(gen, simTick)' <=> AllGenerated(gen', simTick')
  BY DEF AllGenerated
<1> QED BY <1>1, <1>2 DEF GenInv, Begun, Waits, ScheduledAt, Places

(***************************************************************************)
(* A step that leaves the generator and its events alone.                  *)
(***************************************************************************)
LEMMA TraceLater ==
  ASSUME load \in TraceLoad, 1 .. Len(load.lines) \subseteq Requests,
         NEW g, NEW q, NEW st, TraceInv(g, q, st),
         NEW su, Progress(st, su), NEW r, SameHostEvents(q, r)
  PROVE  TraceInv(g, r, su)
<1>1. TraceCore(g, su)
  BY TraceProgress DEF TraceInv
<1>2. TraceDepth(g, r)
  BY DEF TraceInv, TraceDepth, SameHostEvents
<1> QED BY <1>1, <1>2 DEF TraceInv

LEMMA GenLater ==
  ASSUME {load.depth, load.ioSize, load.runtime, load.blocksize} \subseteq Nat,
         NEW g, NEW q, NEW st, NEW now \in Nat, GenInv(g, q, st, now),
         NEW su, Progress(st, su), NEW r, SameHostEvents(q, r),
         NEW later \in Nat, now <= later
  PROVE  GenInv(g, r, su, later)
<1>1. \A x \in Requests : Begun(su, x) <=> Begun(st, x)
  BY DEF Progress
<1>2. AllGenerated(g, now) => AllGenerated(g, later)
  <2>1. load.runtime \in Nat
    OBVIOUS
  <2> QED BY <2>1 DEF AllGenerated
<1> QED BY <1>1, <1>2 DEF GenInv, SameHostEvents

(***************************************************************************)
(* iocallback of the trace replayer.                                       *)
(***************************************************************************)
LEMMA TraceAnswered ==
  ASSUME load \in TraceLoad, 1 .. Len(load.lines) \subseteq Requests,
         NEW g, IsGenerator(g), NEW q, InOrder(q), NEW now \in Nat,
         NotBefore(q, now), NEW st, TraceInv(g, q, st), g.depth # 0,
         NEW su, Progress(st, su), NEW u, u = TraceCallback(g, q, now)
  PROVE  TraceInv(u[1], u[2], su) /\ u[1].depth = g.depth - 1
<1>1. TraceCore(g, su)
  BY TraceProgress DEF TraceInv
<1>2. /\ g.reserve \in BOOLEAN /\ g.sync \in BOOLEAN /\ g.depth \in Nat \ {0}
      /\ g.count \in Nat /\ g.depth <= g.count
      /\ load.mode = "sync" => g.depth = 1
      /\ load.mode = "async" => g.depth <= Bound
      /\ g.sync => load.mode = "async" /\ ~g.reserve
      /\ g.status # "ended"
      /\ g.status = "running" => ~Waits(q, BeginEvent)
      /\ g.status = "running" /\ Waits(q, SubmitEvent) =>
           /\ ~g.reserve /\ ~g.sync /\ g.count # 0
           /\ load.mode # "sync"
           /\ load.mode = "async" => g.depth < Bound
  <2>1. Generator.depth = 0
    BY DEF Generator
  <2> QED BY <2>1 DEF TraceInv, TraceCore, TraceDepth, IsGenerator
<1>3. /\ load.mode \in {"sync", "async", "strict"} /\ load.depth \in Nat
      /\ Bound \in Nat
  BY DEF TraceLoad, Bound
<1>4. PICK h : h = [g EXCEPT !.depth = @ - 1]
  OBVIOUS
<1>5. /\ h.count = g.count /\ h.pos = g.pos /\ h.reserve = g.reserve
      /\ h.sync = g.sync /\ h.status = g.status /\ h.depth = g.depth - 1
      /\ h.depth \in Nat /\ h.depth < h.count /\ h.count # 0 /\ IsGenerator(h)
      /\ load.mode = "sync" => h.depth = 0
      /\ load.mode = "async" => h.depth < Bound
  BY ONLY <1>2, <1>3, <1>4, IsGenerator(g) DEF IsGenerator
<1>6. TraceCore(h, su)
  BY ONLY <1>1, <1>2, <1>5 DEF TraceCore
<1>7. CASE h.reserve /\ h.depth = 0
  <2>1. PICK v : v = [h EXCEPT !.status = "ended"]
    OBVIOUS
  <2>2. PICK p : p = removeEvent(q, StatEvent)
    OBVIOUS
  <2>3. PICK w : w = [v EXCEPT !.sync = FALSE]
    OBVIOUS
  <2>4. EndWhenIdle(h, q) = <<v, p>>
    BY <1>7, <2>1, <2>2 DEF EndWhenIdle, endCallback
  <2>5. /\ v.count = h.count /\ v.pos = h.pos /\ v.reserve = h.reserve
        /\ v.sync = h.sync /\ v.status = "ended" /\ v.depth = 0
        /\ w.count = h.count /\ w.pos = h.pos /\ w.reserve = h.reserve
        /\ w.sync = FALSE /\ w.status = "ended" /\ w.depth = 0
    BY ONLY <1>5, <1>7, <2>1, <2>3 DEF IsGenerator
  <2>6. TraceCore(v, su) /\ TraceCore(w, su)
    BY ONLY <1>6, <1>7, <2>5 DEF TraceCore
  <2>7. ~g.sync
    BY ONLY <1>2, <1>5, <1>7
  <2>8. CASE load.mode = "sync"
    <3>1. u[1] = w
      <4>1. PICK b : b = SubmissionLatency + CompletionLatency
        OBVIOUS
      <4>2. PICK x : x = EndWhenIdle(h, q)
        OBVIOUS
      <4>3. x[1] = v /\ x[2] = p
        BY ONLY <2>4, <4>2
      <4>4. u = rescheduleSubmit([x[1] EXCEPT !.sync = FALSE], x[2], now, b)
        BY <1>4, <2>8, <4>1, <4>2 DEF TraceCallback
      <4>5. u = rescheduleSubmit(w, p, now, b)
        BY ONLY <2>3, <4>3, <4>4
      <4> QED BY ONLY <2>8, <4>5 DEF rescheduleSubmit
    <3>2. TraceDepth(w, u[2])
      BY ONLY <1>3, <2>5, <2>8 DEF TraceDepth
    <3> QED BY ONLY <1>5, <1>7, <2>5, <2>6, <3>1, <3>2 DEF TraceInv
  <2>9. CASE load.mode # "sync"
    <3>1. u[1] = v
      BY <1>4, <2>4, <2>7, <2>9 DEF TraceCallback
    <3>2. TraceDepth(v, u[2])
      BY ONLY <1>2, <1>3, <1>5, <2>5, <2>7, <2>9 DEF TraceDepth
    <3> QED BY ONLY <1>5, <1>7, <2>5, <2>6, <3>1, <3>2 DEF TraceInv
  <2> QED BY <2>8, <2>9
<1>8. CASE ~(h.reserve /\ h.depth = 0) /\ ~(load.mode = "sync" \/ g.sync)
  <2>1. u[1] = h /\ u[2] = q
    BY <1>4, <1>8 DEF TraceCallback, EndWhenIdle
  <2>2. TraceDepth(h, q)
    BY ONLY <1>2, <1>3, <1>5, <1>8 DEF TraceDepth
  <2> QED BY ONLY <1>5, <1>6, <2>1, <2>2 DEF TraceInv
<1>9. CASE ~(h.reserve /\ h.depth = 0) /\ (load.mode = "sync" \/ g.sync)
  <2>1. h.reserve = FALSE
    BY ONLY <1>2, <1>5, <1>9
  <2>2. PICK w : w = [h EXCEPT !.sync = FALSE]
    OBVIOUS
  <2>3. /\ w.count = h.count /\ w.pos = h.pos /\ w.reserve = FALSE
        /\ w.sync = FALSE /\ w.status = h.status /\ w.depth = h.depth
        /\ IsGenerator(w)
    BY ONLY <1>5, <2>1, <2>2 DEF IsGenerator
  <2>4. TraceCore(w, su)
    BY ONLY <1>6, <2>1, <2>3 DEF TraceCore
  <2>5. PICK b : b = SubmissionLatency + CompletionLatency
    OBVIOUS
  <2>6. u = rescheduleSubmit(w, q, now, b)
    BY <1>4, <1>9, <2>2, <2>5 DEF TraceCallback, EndWhenIdle
  <2>7. now + b \in Nat
    <3>1. SubmissionLatency \in Nat /\ CompletionLatency \in Nat
      BY StackAssumption
    <3> QED BY <2>5, <3>1
  <2>8. load.mode # "strict"
    BY ONLY <1>2, <1>3, <1>9
  <2>9. CASE load.mode = "async" /\ w.depth >= load.depth
    <3>1. PICK v : v = [w EXCEPT !.sync = TRUE]
      OBVIOUS
    <3>2. u[1] = v /\ u[2] = q
      BY <2>6, <2>9, <3>1 DEF rescheduleSubmit
    <3>3. /\ v.count = h.count /\ v.pos = h.pos /\ v.reserve = FALSE
          /\ v.sync = TRUE /\ v.status = h.status /\ v.depth = h.depth
      BY ONLY <2>3, <3>1 DEF IsGenerator
    <3>4. TraceCore(v, su)
      BY ONLY <1>6, <2>1, <3>3 DEF TraceCore
    <3>5. g.sync
      BY ONLY <1>9, <2>9
    <3>6. TraceDepth(v, q)
      BY ONLY <1>2, <1>3, <1>5, <2>9, <3>3, <3>5 DEF TraceDepth
    <3> QED BY ONLY <1>5, <3>2, <3>3, <3>4, <3>6 DEF TraceInv
  <2>10. CASE ~(load.mode = "async" /\ w.depth >= load.depth)
    <3>1. PICK e : e = insertEvent(q, SubmitEvent, now + b)
      OBVIOUS
    <3>2. u[1] = w /\ u[2] = e
      BY <2>6, <2>8, <2>10, <3>1 DEF rescheduleSubmit
    <3>3. Waits(e, BeginEvent) <=> Waits(q, BeginEvent)
      BY <2>7, <3>1, SubmitScheduled
    <3>4. TraceDepth(w, e)
      BY ONLY <1>2, <1>3, <1>5, <2>3, <3>3 DEF TraceDepth
    <3> QED BY ONLY <1>5, <2>3, <2>4, <3>2, <3>4 DEF TraceInv
  <2> QED BY <2>9, <2>10
<1> QED BY <1>7, <1>8, <1>9

(***************************************************************************)
(* rescheduleSubmit and iocallback of the request generator.               *)
(***************************************************************************)
GenReady(g, q, st, now) ==
  /\ IsGenerator(g) /\ g.reserve \in BOOLEAN /\ g.depth \in Nat
  /\ g.bytes \in Nat /\ (g.reserve => AllGenerated(g, now))
  /\ g.status # "ended"
  /\ \A r \in Requests : Begun(st, r) => r \in 0 .. g.count - 1
  /\ g.depth <= Bound
  /\ g.status = "running" =>
       /\ ~Waits(q, BeginEvent)
       /\ Waits(q, SubmitEvent) => g.depth < Bound

LEMMA GenRescheduled ==
  ASSUME {load.depth, load.ioSize, load.runtime, load.blocksize} \subseteq Nat,
         NEW q, InOrder(q), NEW now \in Nat, NEW breakTime \in Nat,
         NEW st, NEW g, GenReady(g, q, st, now),
         NEW u, u = GenReschedule(g, q, now, breakTime)
  PROVE  GenInv(u[1], u[2], st, now) /\ u[1].depth = g.depth
<1>1. /\ IsGenerator(g) /\ g.reserve \in BOOLEAN /\ g.depth \in Nat
      /\ g.bytes \in Nat /\ g.status # "ended"
      /\ g.reserve => AllGenerated(g, now)
      /\ \A r \in Requests : Begun(st, r) => r \in 0 .. g.count - 1
      /\ g.depth <= Bound
      /\ g.status = "running" =>
           /\ ~Waits(q, BeginEvent)
           /\ Waits(q, SubmitEvent) => g.depth < Bound
      /\ Bound \in Nat /\ load.depth \in Nat
  BY DEF GenReady, Bound
<1>2. PICK d : d = [g EXCEPT !.reserve = TRUE]
  OBVIOUS
<1>3. /\ d.reserve = TRUE /\ d.depth = g.depth /\ d.bytes = g.bytes
      /\ d.count = g.count /\ d.status = g.status /\ IsGenerator(d)
  BY ONLY <1>1, <1>2 DEF IsGenerator
<1>4. CASE AllGenerated(g, now)
  <2>1. AllGenerated(d, now)
    BY ONLY <1>3, <1>4 DEF AllGenerated
  <2>2. CASE g.depth = 0
    <3>1. PICK v : v = [d EXCEPT !.status = "ended"]
      OBVIOUS
    <3>2. u[1] = v
      BY <1>2, <1>4, <2>2, <3>1 DEF GenReschedule, endCallback
    <3>3. /\ v.reserve = TRUE /\ v.depth = g.depth /\ v.bytes = g.bytes
          /\ v.count = g.count /\ v.status = "ended"
      BY ONLY <1>3, <3>1 DEF IsGenerator
    <3>4. AllGenerated(v, now)
      BY ONLY <1>4, <3>3 DEF AllGenerated
    <3> QED BY ONLY <1>1, <2>2, <3>2, <3>3, <3>4 DEF GenInv
  <2>3. CASE g.depth # 0
    <3>1. u[1] = d /\ u[2] = q
      BY <1>2, <1>4, <2>3 DEF GenReschedule
    <3> QED BY ONLY <1>1, <1>3, <2>1, <3>1 DEF GenInv
  <2> QED BY <2>2, <2>3
<1>5. CASE ~AllGenerated(g, now)
  <2>1. PICK e : e = insertEvent(q, SubmitEvent, now + breakTime)
    OBVIOUS
  <2>2. CASE g.depth < load.depth /\ u = <<g, e>>
    <3>1. now + breakTime \in Nat
      OBVIOUS
    <3>2. Waits(e, BeginEvent) <=> Waits(q, BeginEvent)
      BY <2>1, <3>1, SubmitScheduled
    <3>3. g.depth < Bound
      BY ONLY <1>1, <2>2 DEF Bound
    <3>4. u[1] = g /\ u[2] = e
      BY <2>2
    <3> QED BY ONLY <1>1, <3>2, <3>3, <3>4 DEF GenInv
  <2>3. CASE u = <<g, q>>
    <3>1. u[1] = g /\ u[2] = q
      BY <2>3
    <3> QED BY ONLY <1>1, <3>1 DEF GenInv
  <2> QED BY <1>5, <2>1, <2>2, <2>3 DEF GenReschedule
<1> QED BY <1>4, <1>5

LEMMA GenAnswered ==
  ASSUME {load.depth, load.ioSize, load.runtime, load.blocksize} \subseteq Nat,
         NEW g, IsGenerator(g), NEW q, InOrder(q), NEW now \in Nat, NEW st,
         GenInv(g, q, st, now), g.depth # 0, NEW su, Progress(st, su),
         NEW u, u = GenCallback(g, q, now)
  PROVE  GenInv(u[1], u[2], su, now) /\ u[1].depth = g.depth - 1
<1>1. /\ g.reserve \in BOOLEAN /\ g.depth \in Nat \ {0} /\ g.bytes \in Nat
      /\ g.status # "ended" /\ IsGenerator(g)
      /\ \A r \in Requests : Begun(su, r) => r \in 0 .. g.count - 1
      /\ g.depth <= Bound
      /\ g.status = "running" => ~Waits(q, BeginEvent)
      /\ Bound \in Nat
      /\ g.reserve => AllGenerated(g, now)
  <2>1. Generator.depth = 0
    BY DEF Generator
  <2> QED BY <2>1 DEF GenInv, Progress, Bound
<1>2. PICK f : f = [g EXCEPT !.depth = @ - 1]
  OBVIOUS
<1>3. /\ f.reserve = g.reserve /\ f.depth = g.depth - 1 /\ f.bytes = g.bytes
      /\ f.count = g.count /\ f.status = g.status /\ IsGenerator(f)
      /\ f.depth \in Nat /\ f.depth < Bound
  BY ONLY <1>1, <1>2 DEF IsGenerator
<1>4. AllGenerated(g, now) => AllGenerated(f, now)
  BY ONLY <1>3 DEF AllGenerated
<1>5. CASE g.reserve /\ f.depth = 0
  <2>1. PICK v : v = [f EXCEPT !.status = "ended"]
    OBVIOUS
  <2>2. u[1] = v
    BY <1>2, <1>5, <2>1 DEF GenCallback, endCallback
  <2>3. /\ v.reserve = g.reserve /\ v.depth = f.depth /\ v.bytes = g.bytes
        /\ v.count = g.count /\ v.status = "ended"
    BY ONLY <1>3, <2>1 DEF IsGenerator
  <2>4. AllGenerated(v, now)
    BY ONLY <1>1, <1>5, <2>3 DEF AllGenerated
  <2> QED BY ONLY <1>1, <1>3, <1>5, <2>2, <2>3, <2>4 DEF GenInv
<1>6. CASE g.reserve /\ f.depth # 0
  <2>1. u[1] = f /\ u[2] = q
    BY <1>2, <1>6 DEF GenCallback
  <2>2. f.reserve = TRUE /\ AllGenerated(f, now)
    BY ONLY <1>1, <1>3, <1>4, <1>6
  <2>3. \A r \in Requests : Begun(su, r) => r \in 0 .. f.count - 1
    BY ONLY <1>1, <1>3
  <2>4. f.bytes \in Nat /\ f.depth <= Bound /\ f.status # "ended"
        /\ (f.status = "running" => ~Waits(q, BeginEvent))
    BY ONLY <1>1, <1>3
  <2>5. GenInv(f, q, su, now)
    BY ONLY <1>3, <2>2, <2>3, <2>4 DEF GenInv
  <2> QED BY ONLY <1>3, <2>1, <2>5
<1>7. CASE ~g.reserve
  <2>1. PICK b : b = SubmissionLatency + CompletionLatency
    OBVIOUS
  <2>2. b \in Nat
    BY <2>1, StackAssumption
  <2>3. u = GenReschedule(f, q, now, b)
    BY <1>2, <1>7, <2>1 DEF GenCallback
  <2>4. GenReady(f, q, su, now)
    BY ONLY <1>1, <1>3, <1>4, <1>7 DEF GenReady
  <2> QED BY <1>3, <2>2, <2>3, <2>4, GenRescheduled
<1> QED BY <1>5, <1>6, <1>7

-----------------------------------------------------------------------------
(***************************************************************************)
(* The steps.  What the block layer, the device and the generator say of   *)
(* the next state is put together.                                         *)
(***************************************************************************)
LEMMA DepthNext ==
  ASSUME LoadOK', load.kind \in {"trace", "generator"}, load'.kind = load.kind,
         numCores' = numCores,
         NEW j, j = jobs', NEW cq, cq = completionQueue', NEW su, su = state',
         NEW io, io = ioQueue',
         PlacesInv(j, cq, su), IOQueueInv(io, su, gen'.depth),
         load.kind = "trace" =>
           UNCHANGED load /\ TraceInv(gen', eventQueue', su),
         load.kind = "generator" =>
           /\ load'.depth = load.depth /\ load'.ioSize = load.ioSize
           /\ load'.runtime = load.runtime
           /\ GenInv(gen', eventQueue', su, simTick')
  PROVE  DepthInv'
<1>1. PlacesInv(jobs, completionQueue, state)'
  BY DEF PlacesInv, Core
<1>2. IOQueueInv(ioQueue, state, gen.depth)'
  BY DEF IOQueueInv, InUse, Holds
<1>3. load.kind = "trace" => TraceInv(gen, eventQueue, state)'
  BY TraceNext
<1>4. load.kind = "generator" => GenInv(gen, eventQueue, state, simTick)'
  BY GenNext
<1> QED BY <1>1, <1>2, <1>3, <1>4 DEF DepthInv

LEMMA LoadOKNext ==
  ASSUME LoadOK, UNCHANGED load
  PROVE  LoadOK'
BY DEF LoadOK

(***************************************************************************)
(* A step that leaves the generator and its events alone.                  *)
(***************************************************************************)
LEMMA QuietKeepsDepth ==
  ASSUME HostInv, DepthInv, load.kind # "driver",
         UNCHANGED <<load, gen, numCores>>,
         NEW j, j = jobs', NEW cq, cq = completionQueue', NEW su, su = state',
         NEW io, io = ioQueue', NEW r, r = eventQueue',
         PlacesInv(j, cq, su), IOQueueInv(io, su, gen.depth),
         Progress(state, su), SameHostEvents(eventQueue, r),
         simTick' \in Nat, simTick <= simTick'
  PROVE  DepthInv'
<1>1. /\ LoadOK /\ LoadOK' /\ simTick \in Nat
      /\ load.kind = "trace" => TraceInv(gen, eventQueue, state)
      /\ load.kind = "generator" => GenInv(gen, eventQueue, state, simTick)
  BY LoadOKNext DEF DepthInv, HostInv, HostState
<1>2. CASE load.kind = "trace"
  <2>1. load \in TraceLoad /\ 1 .. Len(load.lines) \subseteq Requests
    BY <1>1, <1>2 DEF LoadOK
  <2>2. TraceInv(gen, r, su)
    BY <1>1, <1>2, <2>1, TraceLater
  <2>3. gen' = gen /\ load' = load
    OBVIOUS
  <2>4. TraceInv(gen', eventQueue', su)
    BY <2>2, <2>3
  <2> QED BY <1>1, <1>2, <2>3, <2>4, DepthNext
<1>3. CASE load.kind = "generator"
  <2>1. {load.depth, load.ioSize, load.runtime, load.blocksize} \subseteq Nat
    BY <1>1, <1>3 DEF LoadOK
  <2>2. PICK later \in Nat : later = simTick' /\ simTick <= later
    OBVIOUS
  <2>3. GenInv(gen, r, su, later)
    BY <1>1, <1>3, <2>1, <2>2, GenLater
  <2>4. gen' = gen /\ load' = load
    OBVIOUS
  <2>5. GenInv(gen', eventQueue', su, simTick')
    BY <2>2, <2>3, <2>4
  <2> QED BY <1>1, <1>3, <2>4, <2>5, DepthNext
<1>4. load.kind \in {"trace", "generator", "driver"}
  BY DEF DepthInv
<1> QED BY <1>2, <1>3, <1>4

(***************************************************************************)
(* An I/O is submitted: up to what the generator does next.                *)
(***************************************************************************)
LEMMA IOSubmitted ==
  ASSUME numCores \in Nat, PlacesInv(jobs, completionQueue, state),
         NEW depth, IOQueueInv(ioQueue, state, depth),
         NEW q, NEW t,
         HostState(q, jobs, busy, completionQueue, lastScheduled, t, "idle"),
         NEW b, b.id \in Requests, ~Begun(state, b.id),
         NEW o \in Submissions(b.id, q, t), Submitted(o), submitIO(b)
  PROVE  /\ InOrder(o.events) /\ NotBefore(o.events, t)
         /\ SameHostEvents(q, o.events)
         /\ PlacesInv(jobs', completionQueue', state')
         /\ IOQueueInv(ioQueue', state', depth + 1)
         /\ \E s \in {"queued", "device"} : state' = [state EXCEPT ![b.id] = s]
         /\ state \in [Requests -> States] /\ o.state = state'
<1>1. /\ t \in Nat /\ CoreTypes(jobs, busy)
      /\ Device0(q, jobs, busy, completionQueue, lastScheduled, t)
      /\ Mode(q, completionQueue, lastScheduled, t, "idle")
  BY DEF HostState, Device0
<1>2. /\ Device0(o.events, o.jobs, o.busy, o.completions, o.last, t)
      /\ HostKept(q, o.events)
  BY <1>1, SubmissionLemma
<1>3. SameHostEvents(q, o.events)
  BY <1>2, HostKeptSame
<1>4. /\ PlacesInv(o.jobs, o.completions, o.state)
      /\ \E s \in {"queued", "device"} : o.state = [state EXCEPT ![b.id] = s]
  <2>1. PICK r \in Requests : r = b.id
    OBVIOUS
  <2>2. ~Begun(state, r) /\ o \in Submissions(r, q, t)
    BY ONLY <2>1, ~Begun(state, b.id), o \in Submissions(b.id, q, t)
  <2>3. /\ PlacesInv(o.jobs, o.completions, o.state)
        /\ \E s \in {"queued", "device"} : o.state = [state EXCEPT ![r] = s]
    BY ONLY <1>1, <2>2, SubmissionPlaced,
       PlacesInv(jobs, completionQueue, state)
  <2> QED BY ONLY <2>1, <2>3
<1>5. /\ jobs' = o.jobs /\ completionQueue' = o.completions
      /\ state' = o.state
  BY DEF Submitted
<1>6. state \in [Requests -> States]
  BY DEF PlacesInv
<1>7. PICK s \in {"queued", "device"} : o.state = [state EXCEPT ![b.id] = s]
  BY <1>4
<1>8. PICK su : su = [state EXCEPT ![b.id] = s]
  OBVIOUS
<1>9. IOQueueInv(Append(ioQueue, b), su, depth + 1)
  BY <1>6, <1>8, IOTaken
<1>10. ioQueue' = Append(ioQueue, b)
  BY DEF submitIO
<1> QED BY <1>2, <1>3, <1>4, <1>5, <1>6, <1>7, <1>8, <1>9, <1>10 DEF Device0

(***************************************************************************)
(* Another driver's workload has no generator.                             *)
(***************************************************************************)
LEMMA DriverKeepsDepth ==
  ASSUME DepthInv, load.kind = "driver", UNCHANGED load,
         gen'.status = gen.status
  PROVE  DepthInv'
BY DEF DepthInv

(***************************************************************************)
(* A step of the engine, the main loop or the HIL that leaves the requests *)
(* where they are.                                                         *)
(***************************************************************************)
LEMMA IdleKeepsDepth ==
  ASSUME HostInv, DepthInv,
         UNCHANGED <<load, gen, ioQueue, numCores, jobs, completionQueue, state>>,
         NEW r, r = eventQueue', SameHostEvents(eventQueue, r),
         simTick' \in Nat, simTick <= simTick'
  PROVE  DepthInv'
<1>1. CASE load.kind = "driver"
  BY <1>1, DriverKeepsDepth
<1>2. CASE load.kind # "driver"
  <2>1. /\ PlacesInv(jobs, completionQueue, state)
        /\ IOQueueInv(ioQueue, state, gen.depth)
        /\ state \in [Requests -> States]
    BY <1>2 DEF DepthInv, PlacesInv
  <2>2. Progress(state, state)
    BY <2>1 DEF Progress
  <2>3. /\ jobs' = jobs /\ completionQueue' = completionQueue
        /\ state' = state /\ ioQueue' = ioQueue
        /\ UNCHANGED <<load, gen, numCores>>
    OBVIOUS
  <2> QED BY <1>2, <2>1, <2>2, <2>3, QuietKeepsDepth
<1> QED BY <1>1, <1>2

LEMMA StatisticsKeepsDepth ==
  ASSUME HostInv, DepthInv, Statistics
  PROVE  DepthInv'
<1>1. /\ InOrder(eventQueue) /\ NotBefore(eventQueue, simTick)
      /\ simTick \in Nat /\ load.period \in Nat /\ eventQueue # <<>>
      /\ simTick' = Head(eventQueue).tick /\ Head(eventQueue).eid = StatEvent
      /\ UNCHANGED <<load, gen, ioQueue, numCores, jobs, completionQueue, state>>
  BY DEF HostInv, HostState, Device0, LoadTypes, Statistics, Fires
<1>2. PICK h : h = Head(eventQueue)
  OBVIOUS
<1>3. PICK r : r = Tail(eventQueue)
  OBVIOUS
<1>4. /\ h.tick \in Nat /\ simTick <= h.tick /\ InOrder(r)
      /\ h.eid = StatEvent /\ simTick' = h.tick
  BY <1>1, <1>2, <1>3, NextEventLemma
<1>5. SameHostEvents(eventQueue, r)
  <2>1. OthersKept(eventQueue, r, StatEvent)
    BY <1>1, <1>3, HostEvents, EventTaken
  <2> QED BY <2>1, HostEvents, OthersKeptSame
<1>6. PICK s : s = insertEvent(r, StatEvent, h.tick + load.period)
  OBVIOUS
<1>7. SameHostEvents(r, s)
  <2>1. h.tick + load.period \in Nat
    BY <1>1, <1>4
  <2>2. OthersKept(r, s, StatEvent)
    BY <1>4, <1>6, <2>1, HostEvents, InsertEventLemma
  <2> QED BY <2>2, HostEvents, OthersKeptSame
<1>8. eventQueue' = s
  BY <1>2, <1>3, <1>4, <1>6 DEF Statistics
<1>9. SameHostEvents(eventQueue, s)
  BY <1>5, <1>7 DEF SameHostEvents
<1> QED BY <1>1, <1>4, <1>8, <1>9, IdleKeepsDepth

LEMMA StartKeepsDepth ==
  ASSUME HostInv, DepthInv, StartCompletion, Idle
  PROVE  DepthInv'
<1>1. /\ InOrder(eventQueue) /\ NotBefore(eventQueue, simTick)
      /\ simTick \in Nat /\ eventQueue # <<>>
      /\ simTick' = Head(eventQueue).tick /\ Head(eventQueue).eid = Completion
      /\ UNCHANGED <<load, gen, ioQueue, numCores, jobs, completionQueue, state>>
  BY DEF HostInv, HostState, Device0, StartCompletion, Idle
<1>2. PICK h : h = Head(eventQueue)
  OBVIOUS
<1>3. PICK r : r = Tail(eventQueue)
  OBVIOUS
<1>4. h.tick \in Nat /\ simTick <= h.tick /\ simTick' = h.tick
  BY <1>1, <1>2, <1>3, NextEventLemma
<1>5. Completion \in Int /\ Completion # BeginEvent /\ Completion # SubmitEvent
  BY DEF Completion, BeginEvent, SubmitEvent
<1>6. OthersKept(eventQueue, r, Completion)
  BY <1>1, <1>3, <1>5, EventTaken
<1>7. SameHostEvents(eventQueue, r)
  BY <1>5, <1>6, OthersKeptSame
<1>8. eventQueue' = r
  BY <1>3 DEF StartCompletion
<1> QED BY <1>1, <1>4, <1>7, <1>8, IdleKeepsDepth

LEMMA EndKeepsDepth ==
  ASSUME HostInv, DepthInv, EndCompletion, Idle
  PROVE  DepthInv'
<1>1. /\ InOrder(eventQueue) /\ NotBefore(eventQueue, simTick)
      /\ simTick \in Nat /\ simTick' = simTick /\ lastScheduled \in Nat
      /\ Ticks(completionQueue)
      /\ Completing(eventQueue, completionQueue, lastScheduled, simTick)
      /\ UNCHANGED <<load, gen, ioQueue, numCores, jobs, completionQueue, state>>
  BY DEF HostInv, HostState, Device0, Mode, EndCompletion, Idle
<1>2. PICK u : u = updateCompletion(eventQueue, completionQueue)
  OBVIOUS
<1>3. \A x \in completionQueue : simTick < x.finishedAt
  BY <1>1 DEF EndCompletion, Due, Ticks
<1>4. OthersKept(eventQueue, u[1], Completion)
  BY <1>1, <1>2, <1>3, UpdateLemma
<1>5. Completion \in Int /\ Completion # BeginEvent /\ Completion # SubmitEvent
  BY DEF Completion, BeginEvent, SubmitEvent
<1>6. SameHostEvents(eventQueue, u[1])
  BY <1>4, <1>5, OthersKeptSame
<1>7. eventQueue' = u[1]
  BY <1>2 DEF EndCompletion
<1> QED BY <1>1, <1>6, <1>7, IdleKeepsDepth

(***************************************************************************)
(* A core is done with a job.                                              *)
(***************************************************************************)
LEMMA JobKeepsDepth ==
  ASSUME HostInv, DepthInv, NEW c \in Core, jobDone(c), Idle
  PROVE  DepthInv'
<1>0. /\ numCores \in Nat /\ simTick \in Nat
      /\ InOrder(eventQueue) /\ NotBefore(eventQueue, simTick)
      /\ CoreTypes(jobs, busy) /\ CoresAwake(eventQueue, jobs, busy)
      /\ Ticks(completionQueue) /\ lastScheduled \in Nat
      /\ Armed(eventQueue, completionQueue, lastScheduled, simTick)
      /\ eventQueue # <<>> /\ Head(eventQueue).eid = c
      /\ UNCHANGED <<numCores, load, gen, ioQueue>>
  BY DEF HostInv, HostState, Device0, Mode, jobDone, Idle
<1>1. CASE load.kind = "driver"
  BY <1>0, <1>1, DriverKeepsDepth
<1>2. CASE load.kind # "driver"
  <2>1. PICK h : h = Head(eventQueue)
    OBVIOUS
  <2>2. PICK r : r = Tail(eventQueue)
    OBVIOUS
  <2>3. /\ h.eid = c /\ simTick' = h.tick /\ c \in Int
        /\ c # Completion /\ c # BeginEvent /\ c # SubmitEvent
        /\ Completion \in Int /\ Completion # BeginEvent
        /\ Completion # SubmitEvent
    BY <1>0, <2>1 DEF jobDone, Core, Completion, BeginEvent, SubmitEvent
  <2>4. /\ h.tick \in Nat
        /\ ScheduledAt(eventQueue, c, h.tick) /\ simTick <= h.tick
        /\ InOrder(r) /\ NotBefore(r, h.tick) /\ OthersKept(eventQueue, r, c)
        /\ \A u : ~ScheduledAt(r, c, u)
    <3>1. /\ h.tick \in Nat
          /\ ScheduledAt(eventQueue, h.eid, h.tick) /\ simTick <= h.tick
          /\ InOrder(r) /\ NotBefore(r, h.tick)
          /\ OthersKept(eventQueue, r, h.eid)
          /\ \A u : ~ScheduledAt(r, h.eid, u)
      BY ONLY <1>0, <2>1, <2>2, NextEventLemma
    <3> QED BY ONLY <2>3, <3>1
  <2>5. Armed(r, completionQueue, lastScheduled, h.tick)
    <3>1. lastScheduled <= simTick => lastScheduled <= h.tick
      BY <1>0, <2>4
    <3> QED BY <1>0, <2>3, <2>4, <3>1 DEF Armed, OthersKept
  <2>6. PICK x : x = Head(jobs[c])
    OBVIOUS
  <2>7. PICK e \in Execute(x, r, h.tick) :
          /\ Executed(x, e)
          /\ \E n \in NextJob(c, e.events) :
               eventQueue' = n[1] /\ busy' = [busy EXCEPT ![c] = n[2]]
    BY <2>1, <2>2, <2>6 DEF jobDone
  <2>8. PICK n \in NextJob(c, e.events) : eventQueue' = n[1]
    BY <2>7
  <2>9. /\ InOrder(e.events) /\ NotBefore(e.events, h.tick)
        /\ OthersKept(r, e.events, Completion)
    BY <1>0, <2>4, <2>5, <2>7, ExecuteLemma
  <2>10. OthersKept(e.events, n[1], c)
    <3>1. CASE Len(jobs[c]) > 1
      <4>1. PICK d \in CoreLatency : n = <<insertEvent(e.events, c, h.tick + d), TRUE>>
        BY <2>1, <2>8, <3>1 DEF NextJob
      <4>2. h.tick + d \in Nat
        BY <2>4, HILAssumption
      <4>3. PICK s : s = insertEvent(e.events, c, h.tick + d)
        OBVIOUS
      <4>4. OthersKept(e.events, s, c)
        BY <2>3, <2>9, <4>2, <4>3, InsertEventLemma
      <4> QED BY <4>1, <4>3, <4>4
    <3>2. CASE ~(Len(jobs[c]) > 1)
      <4>1. n = <<e.events, FALSE>>
        BY ONLY <2>8, <3>2 DEF NextJob
      <4>2. n[1] = e.events
        BY ONLY <4>1
      <4> QED BY ONLY <4>2 DEF OthersKept
    <3> QED BY <3>1, <3>2
  <2>11. SameHostEvents(eventQueue, n[1])
    <3>1. SameHostEvents(eventQueue, r)
      BY <2>3, <2>4, OthersKeptSame
    <3>2. SameHostEvents(r, e.events)
      BY <2>3, <2>9, OthersKeptSame
    <3>3. SameHostEvents(e.events, n[1])
      BY <2>3, <2>10, OthersKeptSame
    <3> QED BY <3>1, <3>2, <3>3 DEF SameHostEvents
  <2>12. PICK d \in DeviceLatency :
           e.completions = completionQueue \cup {Finished(x, h.tick + d)}
    BY <2>7, ExecuteFinishes
  <2>13. jobs[c] # <<>>
    BY <1>0, <2>4 DEF CoresAwake
  <2>14. PICK cq : cq = completionQueue \cup {Finished(x, h.tick + d)}
    OBVIOUS
  <2>15. PICK j : j = [jobs EXCEPT ![c] = Tail(@)]
    OBVIOUS
  <2>16. PICK su : su = [state EXCEPT ![x] = "device"]
    OBVIOUS
  <2>17. jobs' = j /\ completionQueue' = cq /\ state' = su
    BY <2>6, <2>7, <2>12, <2>14, <2>15, <2>16 DEF jobDone, Executed
  <2>18. /\ PlacesInv(jobs, completionQueue, state)
         /\ IOQueueInv(ioQueue, state, gen.depth)
         /\ state \in [Requests -> States]
    BY <1>2 DEF DepthInv, PlacesInv
  <2>19. PlacesInv(j, cq, su) /\ x \in Requests /\ state[x] = "queued"
    <3>1. PICK t : t = h.tick + d
      OBVIOUS
    <3>2. cq = completionQueue \cup {Finished(x, t)}
      BY ONLY <2>14, <3>1
    <3>3. /\ c \in Core /\ CoreTypes(jobs, busy)
          /\ PlacesInv(jobs, completionQueue, state)
      BY ONLY <1>0, <2>18, c \in Core
    <3>4. PlacesInv(j, cq, su) /\ x \in Requests /\ state[x] = "queued"
      BY ONLY <2>6, <2>13, <2>15, <2>16, <3>2, <3>3, JobPlaced
    <3> QED BY ONLY <3>4
  <2>20. /\ su \in [Requests -> States]
         /\ \A y \in Requests : su[y] = IF y = x THEN "device" ELSE state[y]
    BY <2>16, <2>18, <2>19 DEF States
  <2>21. Progress(state, su) /\ InUse(su) = InUse(state)
    BY <2>18, <2>19, <2>20 DEF Progress, Begun, InUse
  <2>22. IOQueueInv(ioQueue, su, gen.depth)
    BY <2>18, <2>21 DEF IOQueueInv
  <2>23. ioQueue' = ioQueue /\ UNCHANGED <<load, gen, numCores>>
    BY <1>0
  <2> QED BY <1>2, <2>3, <2>4, <2>8, <2>11, <2>17, <2>19, <2>21, <2>22, <2>23,
             QuietKeepsDepth
<1> QED BY <1>1, <1>2

(***************************************************************************)
(* The trace replayer submits a line.                                      *)
(***************************************************************************)
LEMMA TraceSubmitsDepth ==
  ASSUME HostInv, DepthInv, pc = "idle", load.kind = "trace",
         NEW q, q = Tail(eventQueue), NEW t,
         HostState(q, jobs, busy, completionQueue, lastScheduled, t, "idle"),
         NEW g, ReadyForLine(g, q, state), g.depth = gen.depth,
         TraceSubmits(g, t), UNCHANGED <<numCores, load>>
  PROVE  DepthInv'
<1>1. /\ LoadOK /\ LoadOK' /\ load \in TraceLoad
      /\ 1 .. Len(load.lines) \subseteq Requests
      /\ PlacesInv(jobs, completionQueue, state)
      /\ IOQueueInv(ioQueue, state, gen.depth)
      /\ numCores \in Nat /\ t \in Nat /\ InOrder(q) /\ NotBefore(q, t)
  BY LoadOKNext DEF DepthInv, LoadOK, HostInv, HostState, Device0
<1>2. g.count \in Requests /\ ~Begun(state, g.count)
  BY <1>1, LineIsNew
<1>3. load'.kind = load.kind /\ load.kind # "generator"
      /\ load.kind \in {"trace", "generator"}
  OBVIOUS
<1>4. CASE g.line.type = "unknown"
  <2>1. /\ gen' = [g EXCEPT !.status = "panic"] /\ eventQueue' = q
        /\ jobs' = jobs /\ completionQueue' = completionQueue
        /\ state' = state /\ ioQueue' = ioQueue
    BY <1>4 DEF TraceSubmits
  <2>2. /\ IsGenerator(g) /\ TraceCore(g, state) /\ g.sync = FALSE
        /\ load.mode = "sync" => g.depth = 0
        /\ load.mode = "async" => g.depth < Bound /\ Bound \in Nat
        /\ g.depth \in Nat
    BY <1>1 DEF ReadyForLine, TraceCore, Bound, TraceLoad
  <2>3. PICK v : v = [g EXCEPT !.status = "panic"]
    OBVIOUS
  <2>4. /\ v.count = g.count /\ v.pos = g.pos /\ v.reserve = g.reserve
        /\ v.sync = g.sync /\ v.status = "panic" /\ v.depth = g.depth
    BY ONLY <2>2, <2>3 DEF IsGenerator
  <2>5. TraceCore(v, state)
    BY ONLY <2>2, <2>4 DEF TraceCore
  <2>6. TraceDepth(v, q)
    BY ONLY <2>2, <2>4 DEF TraceDepth
  <2>7. gen' = v /\ TraceInv(gen', eventQueue', state) /\ gen'.depth = gen.depth
    BY <2>1, <2>3, <2>4, <2>5, <2>6 DEF TraceInv
  <2> QED BY <1>1, <1>3, <2>1, <2>7, DepthNext
<1>5. CASE g.line.type # "unknown"
  <2>1. PICK b : b = Bio(g.count, g.line.offset, g.line.length)
    OBVIOUS
  <2>2. b.id = g.count
    BY <2>1 DEF Bio
  <2>3. PICK o \in Submissions(b.id, q, t) :
          Submitted(o) /\ HostBecomes(AfterSubmit(g, o, t)) /\ submitIO(b)
    BY <1>5, <2>1 DEF TraceSubmits
  <2>4. /\ InOrder(o.events) /\ NotBefore(o.events, t)
        /\ SameHostEvents(q, o.events)
        /\ PlacesInv(jobs', completionQueue', state')
        /\ IOQueueInv(ioQueue', state', gen.depth + 1)
        /\ \E s \in {"queued", "device"} : state' = [state EXCEPT ![b.id] = s]
        /\ state \in [Requests -> States] /\ o.state = state'
    BY <1>1, <1>2, <2>2, <2>3, IOSubmitted
  <2>5. PICK s \in {"queued", "device"} : state' = [state EXCEPT ![g.count] = s]
    BY <2>2, <2>4
  <2>6. PICK p : p = o.events
    OBVIOUS
  <2>7. ReadyForLine(g, p, state)
    BY <2>4, <2>6 DEF ReadyForLine, SameHostEvents
  <2>8. PICK u : u = AfterSubmit(g, o, t)
    OBVIOUS
  <2>9. PICK su : su = state'
    OBVIOUS
  <2>10. TraceInv(u[1], u[2], su) /\ u[1].depth = g.depth + 1
    <3>1. /\ o.events = p /\ state \in [Requests -> States]
          /\ InOrder(p) /\ NotBefore(p, t)
          /\ Takes(state, g.count, o.state)
      BY ONLY <2>4, <2>5, <2>6 DEF Takes
    <3>2. /\ load \in TraceLoad /\ 1 .. Len(load.lines) \subseteq Requests
          /\ t \in Nat
      BY ONLY <1>1
    <3>3. TraceInv(u[1], u[2], o.state) /\ u[1].depth = g.depth + 1
      BY ONLY <2>7, <2>8, <3>1, <3>2, LineSubmitted
    <3> QED BY ONLY <2>4, <2>9, <3>3
  <2>11. gen' = u[1] /\ eventQueue' = u[2]
    BY <2>3, <2>8 DEF HostBecomes
  <2>12. TraceInv(gen', eventQueue', su) /\ gen'.depth = gen.depth + 1
    BY <2>10, <2>11
  <2>13. PICK j : j = jobs'
    OBVIOUS
  <2>14. PICK cq : cq = completionQueue'
    OBVIOUS
  <2>15. PICK io : io = ioQueue'
    OBVIOUS
  <2>16. PlacesInv(j, cq, su) /\ IOQueueInv(io, su, gen'.depth)
    BY ONLY <2>4, <2>9, <2>12, <2>13, <2>14, <2>15
  <2>17. UNCHANGED <<numCores, load>> /\ load.kind = "trace"
    OBVIOUS
  <2> QED BY ONLY <1>1, <1>3, <2>9, <2>12, <2>13, <2>14, <2>15, <2>16, <2>17,
                  DepthNext
<1> QED BY <1>4, <1>5

LEMMA BeginTraceDepth ==
  ASSUME HostInv, DepthInv, BeginTrace
  PROVE  DepthInv'
<1>0. /\ numCores \in Nat /\ LoadTypes /\ IsGenerator(gen)
      /\ BeginsAtZero(eventQueue) /\ UNCHANGED <<numCores, pc, load>>
      /\ pc = "idle" /\ eventQueue # <<>> /\ load.kind = "trace"
      /\ InOrder(eventQueue) /\ gen.status = "running"
  BY DEF HostInv, HostState, Device0, BeginTrace, Fires
<1>1. /\ LoadOK /\ LoadOK' /\ load \in TraceLoad
      /\ 1 .. Len(load.lines) \subseteq Requests
      /\ PlacesInv(jobs, completionQueue, state)
      /\ IOQueueInv(ioQueue, state, gen.depth)
      /\ TraceInv(gen, eventQueue, state)
  BY <1>0, LoadOKNext DEF DepthInv, LoadOK
<1>2. PICK h : h = Head(eventQueue)
  OBVIOUS
<1>3. PICK q : q = Tail(eventQueue)
  OBVIOUS
<1>4. h.eid = BeginEvent /\ h.eid < 0 /\ simTick' = h.tick
  BY <1>2 DEF BeginTrace, Fires, BeginEvent
<1>5. /\ HostState(q, jobs, busy, completionQueue, lastScheduled, h.tick,
                   "idle")
      /\ ScheduledAt(eventQueue, h.eid, h.tick)
  BY <1>0, <1>2, <1>3, <1>4, HostEventFires
<1>6. h.tick = 0 /\ h.tick \in Nat /\ InOrder(q) /\ NotBefore(q, h.tick)
  BY <1>0, <1>4, <1>5 DEF BeginsAtZero, HostState, Device0
<1>7. /\ Waits(eventQueue, BeginEvent) /\ ~Waits(q, BeginEvent)
      /\ Waits(q, SubmitEvent) <=> Waits(eventQueue, SubmitEvent)
  BY <1>0, <1>2, <1>3, <1>4, HostEvents, EventTaken
<1>8. gen = Generator /\ ~Waits(q, SubmitEvent)
  BY <1>0, <1>1, <1>7 DEF TraceInv, TraceDepth
<1>9. /\ gen.count = 0 /\ gen.depth = 0 /\ gen.pos = 0 /\ gen.sync = FALSE
      /\ gen.reserve = FALSE /\ gen.status = "running"
  BY <1>8 DEF Generator
<1>10. AllBegun(gen, state)
  <2>1. /\ TraceCore(gen, state)
        /\ Len(load.lines) \in Nat /\ load.maxIO \in Nat
    BY <1>1 DEF TraceInv, TraceLoad
  <2>2. \A r \in Requests : ~Begun(state, r)
    BY <1>9, <2>1 DEF TraceCore
  <2>3. gen.pos \in 0 .. Len(load.lines) /\ gen.count = MatchedUpTo(gen.pos)
    BY <2>1 DEF TraceCore
  <2>4. \A r \in Requests : Begun(state, r) <=> r \in 1 .. gen.count
    BY ONLY <1>9, <2>2
  <2>5. load.maxIO # 0 => gen.count < load.maxIO
    BY ONLY <1>9, <2>1
  <2>6. gen.depth \in Nat /\ gen.depth <= gen.count
    BY ONLY <1>9
  <2>8. gen.sync \in BOOLEAN
    BY ONLY <1>9, Zenon
  <2>7. IsGenerator(gen) /\ gen.reserve = FALSE /\ gen.status = "running"
    BY ONLY <1>0, <1>9
  <2> QED BY ONLY <2>3, <2>4, <2>5, <2>6, <2>7, <2>8 DEF AllBegun
<1>11. PICK u : u = parseLine(gen, q, state)
  OBVIOUS
<1>12. /\ TraceCore(u[1], state) /\ u[1].depth = 0 /\ u[1].sync = FALSE
       /\ SameHostEvents(q, u[2])
       /\ ~u[1].reserve => u[1].count # 0 /\ u[1].status = "running"
  BY <1>1, <1>6, <1>9, <1>10, <1>11, LineParsed
<1>13. Drops(q, u, h.tick)
  BY <1>0, <1>6, <1>11, ParseLineLemma
<1>14. IsGenerator(u[1]) /\ InOrder(u[2]) /\ NotBefore(u[2], h.tick)
  BY <1>13 DEF Drops, Host
<1>15. PICK g : g = [u[1] EXCEPT !.first =
                       IF load.mode = "strict" THEN u[1].line.tick ELSE 0]
  OBVIOUS
<1>16. /\ g.count = u[1].count /\ g.pos = u[1].pos /\ g.reserve = u[1].reserve
       /\ g.sync = FALSE /\ g.status = u[1].status /\ g.depth = 0
       /\ IsGenerator(g)
  BY ONLY <1>12, <1>14, <1>15 DEF IsGenerator
<1>17. TraceCore(g, state) /\ g.reserve \in BOOLEAN
  BY ONLY <1>12, <1>16 DEF TraceCore
<1>18. CASE g.reserve
  <2>1. PICK v : v = [g EXCEPT !.status = "ended"]
    OBVIOUS
  <2>2. /\ gen' = v /\ jobs' = jobs /\ completionQueue' = completionQueue
        /\ state' = state /\ ioQueue' = ioQueue
    BY <1>3, <1>11, <1>15, <1>18, <2>1 DEF BeginTrace, endCallback, HostBecomes
  <2>3. /\ v.count = g.count /\ v.pos = g.pos /\ v.reserve = g.reserve
        /\ v.sync = FALSE /\ v.status = "ended" /\ v.depth = 0
    BY ONLY <1>16, <2>1 DEF IsGenerator
  <2>4. TraceCore(v, state)
    BY ONLY <1>16, <1>17, <1>18, <2>3 DEF TraceCore
  <2>5. TraceDepth(v, eventQueue')
    <3>1. Bound \in Nat
      BY <1>1 DEF Bound, TraceLoad
    <3> QED BY ONLY <2>3, <3>1 DEF TraceDepth
  <2>6. TraceInv(gen', eventQueue', state) /\ gen'.depth = gen.depth
    BY <1>9, <2>2, <2>3, <2>4, <2>5 DEF TraceInv
  <2> QED BY <1>0, <1>1, <2>2, <2>6, DepthNext
<1>19. CASE ~g.reserve
  <2>1. TraceSubmits(g, 0)
    BY <1>3, <1>11, <1>15, <1>19 DEF BeginTrace
  <2>2. g.reserve = FALSE
    BY <1>17, <1>19
  <2>3. Bound \in Nat \ {0}
    BY <1>1 DEF Bound, TraceLoad
  <2>4. ReadyForLine(g, q, state)
    BY ONLY <1>7, <1>8, <1>12, <1>16, <1>17, <2>2, <2>3 DEF ReadyForLine
  <2>5. HostState(q, jobs, busy, completionQueue, lastScheduled, 0, "idle")
    BY <1>5, <1>6
  <2> QED BY <1>0, <1>3, <1>9, <1>16, <2>1, <2>4, <2>5, TraceSubmitsDepth
<1> QED BY <1>18, <1>19

LEMMA SubmitTraceDepth ==
  ASSUME HostInv, DepthInv, SubmitTrace
  PROVE  DepthInv'
<1>0. /\ IsGenerator(gen) /\ UNCHANGED <<numCores, pc, load>>
      /\ pc = "idle" /\ eventQueue # <<>> /\ load.kind = "trace"
      /\ InOrder(eventQueue) /\ gen.status = "running"
  BY DEF HostInv, HostState, Device0, SubmitTrace, Fires
<1>1. TraceInv(gen, eventQueue, state)
  BY <1>0 DEF DepthInv
<1>2. PICK h : h = Head(eventQueue)
  OBVIOUS
<1>3. PICK q : q = Tail(eventQueue)
  OBVIOUS
<1>4. h.eid = SubmitEvent /\ h.eid < 0 /\ TraceSubmits(gen, h.tick)
  BY <1>2 DEF SubmitTrace, Fires, SubmitEvent
<1>5. HostState(q, jobs, busy, completionQueue, lastScheduled, h.tick, "idle")
  BY <1>0, <1>2, <1>3, <1>4, HostEventFires
<1>6. /\ Waits(eventQueue, SubmitEvent) /\ ~Waits(q, SubmitEvent)
      /\ Waits(q, BeginEvent) <=> Waits(eventQueue, BeginEvent)
  BY <1>0, <1>2, <1>3, <1>4, HostEvents, EventTaken
<1>7. /\ ~Waits(q, BeginEvent) /\ TraceCore(gen, state)
      /\ ~gen.reserve /\ ~gen.sync /\ gen.count # 0
      /\ load.mode = "sync" => gen.depth = 0
      /\ load.mode = "async" => gen.depth < Bound
  BY <1>0, <1>1, <1>6 DEF TraceInv, TraceDepth
<1>8. gen.reserve = FALSE /\ gen.sync = FALSE
  BY <1>7 DEF TraceCore
<1>9. ReadyForLine(gen, q, state)
  BY ONLY <1>0, <1>6, <1>7, <1>8 DEF ReadyForLine
<1> QED BY <1>0, <1>3, <1>4, <1>5, <1>9, TraceSubmitsDepth

(***************************************************************************)
(* The request generator submits an I/O.                                   *)
(***************************************************************************)
LEMMA GenSubmitsDepth ==
  ASSUME HostInv, DepthInv, pc = "idle", load.kind = "generator",
         NEW q, q = Tail(eventQueue), NEW t,
         HostState(q, jobs, busy, completionQueue, lastScheduled, t, "idle"),
         gen.status = "running", gen.depth < Bound,
         ~Waits(q, BeginEvent), ~Waits(q, SubmitEvent),
         NEW w, w.blocksize \in Nat, GenSubmits(w, t), simTick' = t,
         simTick <= t, numCores' = numCores, LoadOK', load'.kind = load.kind,
         load'.depth = load.depth, load'.ioSize = load.ioSize,
         load'.runtime = load.runtime
  PROVE  DepthInv'
<1>1. /\ LoadOK /\ Nat \subseteq Requests
      /\ {load.depth, load.ioSize, load.runtime, load.blocksize} \subseteq Nat
      /\ PlacesInv(jobs, completionQueue, state)
      /\ IOQueueInv(ioQueue, state, gen.depth)
      /\ GenInv(gen, eventQueue, state, simTick)
      /\ numCores \in Nat /\ t \in Nat /\ IsGenerator(gen)
  BY DEF DepthInv, LoadOK, HostInv, HostState
<1>2. /\ gen.count \in Requests /\ gen.count \in Nat /\ ~Begun(state, gen.count)
      /\ \A r \in Requests : Begun(state, r) => r \in 0 .. gen.count - 1
      /\ gen.depth \in Nat /\ gen.bytes \in Nat
  <2>1. /\ gen.count \in Nat /\ gen.depth \in Nat /\ gen.bytes \in Nat
        /\ \A r \in Requests : Begun(state, r) => r \in 0 .. gen.count - 1
    BY <1>1 DEF IsGenerator, GenInv
  <2>2. gen.count \in Requests /\ gen.count \notin 0 .. gen.count - 1
    BY ONLY <1>1, <2>1
  <2> QED BY ONLY <2>1, <2>2
<1>3. PICK g : g = [gen EXCEPT !.count = @ + 1, !.depth = @ + 1,
                               !.bytes = @ + w.blocksize]
  OBVIOUS
<1>4. PICK off \in generateAddress(w, gen.count) :
        LET b == Bio(gen.count, off, w.blocksize)
        IN  /\ submitIO(b)
            /\ \E o \in Submissions(b.id, q, t) :
                 /\ Submitted(o)
                 /\ HostBecomes(GenReschedule(g, o.events, t,
                                              SubmissionLatency))
  BY <1>3 DEF GenSubmits
<1>5. PICK b : b = Bio(gen.count, off, w.blocksize)
  OBVIOUS
<1>6. b.id = gen.count
  BY <1>5 DEF Bio
<1>7. PICK o \in Submissions(b.id, q, t) :
        /\ Submitted(o) /\ submitIO(b)
        /\ HostBecomes(GenReschedule(g, o.events, t, SubmissionLatency))
  BY <1>4, <1>5
<1>8. /\ InOrder(o.events) /\ NotBefore(o.events, t)
      /\ SameHostEvents(q, o.events)
      /\ PlacesInv(jobs', completionQueue', state')
      /\ IOQueueInv(ioQueue', state', gen.depth + 1)
      /\ \E s \in {"queued", "device"} : state' = [state EXCEPT ![b.id] = s]
      /\ state \in [Requests -> States]
  BY <1>1, <1>2, <1>6, <1>7, IOSubmitted
<1>9. PICK su : su = state'
  OBVIOUS
<1>10. PICK p : p = o.events
  OBVIOUS
<1>11. PICK u : u = GenReschedule(g, p, t, SubmissionLatency)
  OBVIOUS
<1>12. gen' = u[1] /\ eventQueue' = u[2]
  BY <1>7, <1>10, <1>11 DEF HostBecomes
<1>13. \A r \in Requests : Begun(su, r) => r \in 0 .. gen.count
  <2>1. PICK s \in {"queued", "device"} : su = [state EXCEPT ![gen.count] = s]
    BY <1>6, <1>8, <1>9
  <2>2. \A r \in Requests : r # gen.count => su[r] = state[r]
    BY <1>2, <1>8, <2>1
  <2>3. \A r : r \in 0 .. gen.count - 1 => r \in 0 .. gen.count
    BY ONLY <1>2
  <2>4. gen.count \in 0 .. gen.count
    BY ONLY <1>2
  <2> QED BY ONLY <1>2, <2>2, <2>3, <2>4 DEF Begun
<1>14. /\ g.count = gen.count + 1 /\ g.depth = gen.depth + 1
       /\ g.bytes = gen.bytes + w.blocksize
       /\ g.reserve = gen.reserve /\ g.status = "running"
  BY <1>1, <1>3 DEF IsGenerator
<1>15. IsGenerator(g)
  <2>1. gen.count + 1 \in Nat
    BY <1>2
  <2>2. g = [count |-> gen.count + 1, depth |-> gen.depth + 1,
             pos |-> gen.pos, line |-> gen.line, first |-> gen.first,
             bytes |-> gen.bytes + w.blocksize, sync |-> gen.sync,
             reserve |-> gen.reserve, status |-> gen.status]
    BY <1>1, <1>3 DEF IsGenerator
  <2> QED BY <1>1, <2>1, <2>2 DEF IsGenerator
<1>16. GenReady(g, p, su, t)
  <2>1. Bound \in Nat
    BY <1>1 DEF Bound
  <2>2. g.depth \in Nat /\ g.depth <= Bound /\ g.bytes \in Nat
    <3>1. gen.depth < Bound /\ w.blocksize \in Nat
      OBVIOUS
    <3> QED BY ONLY <1>2, <1>14, <2>1, <3>1
  <2>5. gen.reserve \in BOOLEAN /\ (gen.reserve => AllGenerated(g, t))
    <3>1. /\ gen.reserve \in BOOLEAN
          /\ gen.reserve => AllGenerated(gen, simTick)
          /\ simTick \in Nat /\ w.blocksize \in Nat /\ simTick <= t
      BY <1>1 DEF GenInv, HostInv, HostState
    <3>2. load.ioSize \in Nat /\ load.runtime \in Nat
      BY ONLY <1>1
    <3>3. AllGenerated(gen, simTick) => AllGenerated(g, t)
      BY ONLY <1>1, <1>2, <1>14, <3>1, <3>2 DEF AllGenerated
    <3> QED BY ONLY <3>1, <3>3
  <2>3. ~Waits(p, BeginEvent) /\ ~Waits(p, SubmitEvent)
    BY <1>8, <1>10 DEF SameHostEvents
  <2>4. \A r \in Requests : Begun(su, r) => r \in 0 .. g.count - 1
    <3>1. g.count - 1 = gen.count
      BY ONLY <1>2, <1>14
    <3> QED BY ONLY <1>13, <3>1
  <2> QED BY ONLY <1>14, <1>15, <2>2, <2>3, <2>4, <2>5 DEF GenReady
<1>17. SubmissionLatency \in Nat
  BY StackAssumption
<1>18. GenInv(u[1], u[2], su, t) /\ u[1].depth = g.depth
  <2>1. InOrder(p)
    BY <1>8, <1>10
  <2> QED BY ONLY <1>1, <1>11, <1>16, <1>17, <2>1, GenRescheduled
<1>19. GenInv(gen', eventQueue', su, simTick') /\ gen'.depth = gen.depth + 1
  BY <1>12, <1>14, <1>18
<1>20. PICK j : j = jobs'
  OBVIOUS
<1>21. PICK cq : cq = completionQueue'
  OBVIOUS
<1>22. PICK io : io = ioQueue'
  OBVIOUS
<1>23. PlacesInv(j, cq, su) /\ IOQueueInv(io, su, gen'.depth)
  BY ONLY <1>8, <1>9, <1>19, <1>20, <1>21, <1>22
<1>24. /\ numCores' = numCores /\ LoadOK' /\ load'.kind = load.kind
       /\ load'.depth = load.depth /\ load'.ioSize = load.ioSize
       /\ load'.runtime = load.runtime
       /\ load.kind = "generator" /\ load.kind \in {"trace", "generator"}
       /\ load.kind # "trace"
  OBVIOUS
<1> QED BY ONLY <1>9, <1>19, <1>20, <1>21, <1>22, <1>23, <1>24, DepthNext

LEMMA SubmitGeneratedDepth ==
  ASSUME HostInv, DepthInv, SubmitGenerated
  PROVE  DepthInv'
<1>0. /\ IsGenerator(gen) /\ UNCHANGED <<numCores, pc, load>>
      /\ pc = "idle" /\ eventQueue # <<>> /\ load.kind = "generator"
      /\ InOrder(eventQueue) /\ gen.status = "running"
  BY DEF HostInv, HostState, Device0, SubmitGenerated, Fires
<1>1. /\ GenInv(gen, eventQueue, state, simTick) /\ LoadOK'
      /\ {load.depth, load.ioSize, load.runtime, load.blocksize} \subseteq Nat
  BY <1>0, LoadOKNext DEF DepthInv, LoadOK
<1>2. PICK h : h = Head(eventQueue)
  OBVIOUS
<1>3. PICK q : q = Tail(eventQueue)
  OBVIOUS
<1>4. /\ h.eid = SubmitEvent /\ h.eid < 0 /\ GenSubmits(load, h.tick)
      /\ simTick' = h.tick
  BY <1>2 DEF SubmitGenerated, Fires, SubmitEvent
<1>5. HostState(q, jobs, busy, completionQueue, lastScheduled, h.tick, "idle")
  BY <1>0, <1>2, <1>3, <1>4, HostEventFires
<1>6. /\ Waits(eventQueue, SubmitEvent) /\ ~Waits(q, SubmitEvent)
      /\ Waits(q, BeginEvent) <=> Waits(eventQueue, BeginEvent)
  BY <1>0, <1>2, <1>3, <1>4, HostEvents, EventTaken
<1>7. ~Waits(q, BeginEvent) /\ gen.depth < Bound
  BY <1>0, <1>1, <1>6 DEF GenInv
<1>8. /\ load' = load /\ numCores' = numCores /\ load.blocksize \in Nat
      /\ load'.kind = load.kind /\ load'.depth = load.depth
      /\ load'.ioSize = load.ioSize /\ load'.runtime = load.runtime
  BY <1>0, <1>1
<1>9. simTick <= h.tick
  BY <1>0, <1>2, <1>3, NextEventLemma DEF HostInv, HostState, Device0
<1> QED BY <1>0, <1>1, <1>3, <1>4, <1>5, <1>6, <1>7, <1>8, <1>9,
           GenSubmitsDepth

LEMMA BeginGeneratedDepth ==
  ASSUME HostInv, DepthInv, BeginGenerated
  PROVE  DepthInv'
<1>0. /\ IsGenerator(gen) /\ UNCHANGED <<numCores, pc>> /\ LoadTypes
      /\ pc = "idle" /\ eventQueue # <<>> /\ load.kind = "generator"
      /\ InOrder(eventQueue) /\ gen.status = "running"
      /\ BeginsAtZero(eventQueue) /\ NotBefore(eventQueue, simTick)
      /\ simTick \in Nat /\ numCores \in Nat
  BY DEF HostInv, HostState, Device0, BeginGenerated, Fires
<1>1. /\ GenInv(gen, eventQueue, state, simTick) /\ LoadOK
      /\ {load.depth, load.ioSize, load.runtime, load.blocksize} \subseteq Nat
      /\ Nat \subseteq Requests
      /\ PlacesInv(jobs, completionQueue, state)
      /\ IOQueueInv(ioQueue, state, gen.depth)
  BY <1>0 DEF DepthInv, LoadOK
<1>2. PICK h : h = Head(eventQueue)
  OBVIOUS
<1>3. PICK q : q = Tail(eventQueue)
  OBVIOUS
<1>4. h.eid = BeginEvent /\ h.eid < 0 /\ simTick' = h.tick
  BY <1>2 DEF BeginGenerated, Fires, BeginEvent
<1>5. /\ HostState(q, jobs, busy, completionQueue, lastScheduled, h.tick,
                   "idle")
      /\ ScheduledAt(eventQueue, h.eid, h.tick)
  BY <1>0, <1>2, <1>3, <1>4, HostEventFires
<1>6. h.tick \in Nat /\ simTick <= h.tick
  BY <1>0, <1>2, <1>3, NextEventLemma
<1>7. h.tick = 0
  BY <1>0, <1>4, <1>5, <1>6 DEF BeginsAtZero
<1>8. /\ Waits(eventQueue, BeginEvent) /\ ~Waits(q, BeginEvent)
      /\ Waits(q, SubmitEvent) <=> Waits(eventQueue, SubmitEvent)
  BY <1>0, <1>2, <1>3, <1>4, HostEvents, EventTaken
<1>9. gen = Generator /\ ~Waits(q, SubmitEvent)
  BY <1>0, <1>1, <1>8 DEF GenInv
<1>10. Bound \in Nat \ {0} /\ gen.depth = 0 /\ gen.reserve = FALSE
       /\ gen.bytes = 0
  BY <1>1, <1>9 DEF Bound, Generator
<1>11. CASE Invalid(load)
  <2>1. /\ gen' = [gen EXCEPT !.status = "panic"] /\ eventQueue' = q
        /\ load' = load /\ jobs' = jobs /\ completionQueue' = completionQueue
        /\ state' = state /\ ioQueue' = ioQueue
    BY <1>3, <1>11 DEF BeginGenerated
  <2>2. PICK v : v = [gen EXCEPT !.status = "panic"]
    OBVIOUS
  <2>3. /\ v.count = gen.count /\ v.depth = gen.depth /\ v.bytes = gen.bytes
        /\ v.reserve = FALSE /\ v.status = "panic"
    BY ONLY <1>0, <1>10, <2>2 DEF IsGenerator
  <2>4. \A r \in Requests : Begun(state, r) => r \in 0 .. v.count - 1
    BY <1>1, <2>3 DEF GenInv
  <2>5. GenInv(v, q, state, simTick')
    <3>1. v.depth = 0 /\ v.bytes = 0
      BY ONLY <1>10, <2>3
    <3>2. PICK b \in Nat : b = Bound
      BY ONLY <1>10
    <3>3. v.depth \in Nat /\ v.bytes \in Nat /\ v.depth <= b
      BY ONLY <3>1
    <3>4. v.reserve = FALSE /\ v.status = "panic"
      BY ONLY <2>3
    <3> QED BY ONLY <2>4, <3>2, <3>3, <3>4 DEF GenInv
  <2>6. GenInv(gen', eventQueue', state, simTick') /\ gen'.depth = gen.depth
    BY ONLY <2>1, <2>2, <2>3, <2>5
  <2>7. LoadOK'
    BY ONLY <1>1, <2>1, LoadOKNext
  <2> QED BY <1>0, <1>1, <2>1, <2>6, <2>7, DepthNext
<1>12. CASE ~Invalid(load)
  <2>1. PICK w : w = Initialized(load)
    OBVIOUS
  <2>2. load' = w /\ GenSubmits(w, 0)
    BY <1>12, <2>1 DEF BeginGenerated
  <2>3. /\ w.kind = load.kind /\ w.depth = load.depth
        /\ w.ioSize = load.ioSize /\ w.runtime = load.runtime
        /\ w.blocksize = Rounded(load.blocksize, MinBlock)
    BY <1>0, <2>1 DEF LoadTypes, Initialized
  <2>4. w.blocksize \in Nat
    <3>1. load.blocksize \in Nat /\ MinBlock \in Nat \ {0}
      BY <1>1, StackAssumption
    <3>2. load.blocksize \div MinBlock \in Nat
      BY <3>1
    <3>3. PICK m \in Nat : m = load.blocksize \div MinBlock
      BY <3>2
    <3>4. m * MinBlock \in Nat
      BY <3>1
    <3> QED BY <2>3, <3>3, <3>4 DEF Rounded
  <2>5. LoadOK'
    <3>1. PositiveDepths => PositiveDepth(load)
      BY <1>1 DEF LoadOK
    <3>2. PositiveDepths => PositiveDepth(w)
      BY <1>0, <2>3, <3>1 DEF PositiveDepth
    <3>3. w.kind = "generator" /\ load' = w
      BY <1>0, <2>2, <2>3
    <3>4. {w.depth, w.ioSize, w.runtime, w.blocksize} \subseteq Nat
      BY ONLY <1>1, <2>3, <2>4
    <3> QED BY ONLY <1>1, <3>2, <3>3, <3>4 DEF LoadOK, PositiveDepths, PositiveDepth
  <2>6. HostState(q, jobs, busy, completionQueue, lastScheduled, 0, "idle")
    BY <1>5, <1>7
  <2>7. /\ load'.kind = load.kind /\ load'.depth = load.depth
        /\ load'.ioSize = load.ioSize /\ load'.runtime = load.runtime
        /\ numCores' = numCores /\ simTick' = 0 /\ simTick <= 0
        /\ gen.depth < Bound
    BY <1>0, <1>4, <1>6, <1>7, <1>10, <2>2, <2>3
  <2> QED BY <1>0, <1>3, <1>8, <1>9, <2>2, <2>4, <2>5, <2>6, <2>7,
             GenSubmitsDepth
<1> QED BY <1>11, <1>12

(***************************************************************************)
(* A request is completed, up to the generator.                            *)
(***************************************************************************)
LEMMA CompleteIODepth ==
  ASSUME HostInv, DepthInv, CompleteIO
  PROVE  DepthInv'
<1>0. /\ IsGenerator(gen) /\ simTick \in Nat /\ InOrder(eventQueue)
      /\ NotBefore(eventQueue, simTick) /\ load.kind # "driver"
      /\ UNCHANGED <<numCores, simTick, jobs, load>>
  BY DEF HostInv, HostState, Device0, CompleteIO
<1>1. /\ LoadOK /\ LoadOK' /\ load.kind \in {"trace", "generator"}
      /\ PlacesInv(jobs, completionQueue, state)
      /\ IOQueueInv(ioQueue, state, gen.depth)
      /\ state \in [Requests -> States]
  BY <1>0, LoadOKNext DEF DepthInv, PlacesInv
<1>2. PICK x \in Tops(completionQueue) :
        /\ completionQueue' = completionQueue \ {x}
        /\ state' = [state EXCEPT ![x.req] = "done"]
        /\ completion(x.req)
  BY DEF CompleteIO
<1>3. x \in completionQueue
  BY DEF Tops
<1>4. PICK cq : cq = completionQueue \ {x}
  OBVIOUS
<1>5. PICK su : su = [state EXCEPT ![x.req] = "done"]
  OBVIOUS
<1>6. /\ PlacesInv(jobs, cq, su) /\ Progress(state, su)
      /\ x.req \in InUse(state)
  BY <1>1, <1>3, <1>4, <1>5, CompletionPlaced
<1>7. IOQueueInv(ioQueue', su, gen.depth - 1) /\ gen.depth \in Nat \ {0}
  BY <1>1, <1>2, <1>5, <1>6, IOFound
<1>8. PICK j : j = jobs'
  OBVIOUS
<1>9. PICK io : io = ioQueue'
  OBVIOUS
<1>10. /\ cq = completionQueue' /\ su = state' /\ PlacesInv(j, cq, su)
  BY <1>0, <1>2, <1>4, <1>5, <1>6, <1>8
<1>11. load'.kind = load.kind /\ numCores' = numCores /\ load' = load
       /\ load'.depth = load.depth /\ load'.ioSize = load.ioSize
       /\ load'.runtime = load.runtime /\ simTick' = simTick
  BY <1>0
<1>12. CASE load.kind = "trace"
  <2>1. /\ load \in TraceLoad /\ 1 .. Len(load.lines) \subseteq Requests
        /\ TraceInv(gen, eventQueue, state)
    BY <1>1, <1>12 DEF LoadOK, DepthInv
  <2>2. PICK u : u = TraceCallback(gen, eventQueue, simTick)
    OBVIOUS
  <2>3. gen' = u[1] /\ eventQueue' = u[2]
    BY <1>12, <2>2 DEF CompleteIO, HostBecomes
  <2>4. TraceInv(u[1], u[2], su) /\ u[1].depth = gen.depth - 1
    <3>1. gen.depth # 0
      BY <1>7
    <3> QED BY ONLY <1>0, <1>6, <2>1, <2>2, <3>1, TraceAnswered
  <2>5. TraceInv(gen', eventQueue', su) /\ gen'.depth = gen.depth - 1
    BY ONLY <2>3, <2>4
  <2>6. IOQueueInv(io, su, gen'.depth)
    BY ONLY <1>7, <1>9, <2>5
  <2> QED BY ONLY <1>1, <1>8, <1>9, <1>10, <1>11, <1>12, <2>5, <2>6, DepthNext
<1>13. CASE load.kind = "generator"
  <2>1. /\ GenInv(gen, eventQueue, state, simTick)
        /\ {load.depth, load.ioSize, load.runtime, load.blocksize} \subseteq Nat
    BY <1>1, <1>13 DEF LoadOK, DepthInv
  <2>2. PICK u : u = GenCallback(gen, eventQueue, simTick)
    OBVIOUS
  <2>3. gen' = u[1] /\ eventQueue' = u[2]
    BY <1>13, <2>2 DEF CompleteIO, HostBecomes
  <2>4. GenInv(u[1], u[2], su, simTick) /\ u[1].depth = gen.depth - 1
    <3>1. gen.depth # 0
      BY <1>7
    <3> QED BY ONLY <1>0, <1>6, <2>1, <2>2, <3>1, GenAnswered
  <2>5. GenInv(gen', eventQueue', su, simTick') /\ gen'.depth = gen.depth - 1
    BY ONLY <1>11, <2>3, <2>4
  <2>6. IOQueueInv(io, su, gen'.depth)
    BY ONLY <1>7, <1>9, <2>5
  <2> QED BY ONLY <1>1, <1>8, <1>9, <1>10, <1>11, <1>13, <2>5, <2>6, DepthNext
<1> QED BY <1>1, <1>12, <1>13

-----------------------------------------------------------------------------
(***************************************************************************)
(* The steps of another driver, which has no queue depth to keep.          *)
(***************************************************************************)
LEMMA OtherDriverKeepsDepth ==
  ASSUME HostInv, DepthInv, OtherDriver
  PROVE  DepthInv'
<1>1. load.kind = "driver" /\ IsGenerator(gen)
  BY DEF OtherDriver, HostInv
<1>2. UNCHANGED load /\ gen'.status = gen.status
  <2>1. CASE Idle
    BY <2>1 DEF Idle
  <2>2. CASE \E e \in DriverEvents, t \in 0 .. MaxTick : DriverSchedules(e, t)
    BY <1>1, <2>2 DEF DriverSchedules, IsGenerator
  <2>3. CASE \E e \in DriverEvents : DriverDeschedules(e)
    BY <2>3 DEF DriverDeschedules, Idle
  <2> QED BY <2>1, <2>2, <2>3 DEF OtherDriver
<1> QED BY <1>1, <1>2, DriverKeepsDepth

LEMMA SimulationKeepsDepth ==
  ASSUME HostInv, DepthInv, Simulation
  PROVE  DepthInv'
<1>1. CASE BeginTrace
  BY <1>1, BeginTraceDepth
<1>2. CASE SubmitTrace
  BY <1>2, SubmitTraceDepth
<1>3. CASE BeginGenerated
  BY <1>3, BeginGeneratedDepth
<1>4. CASE SubmitGenerated
  BY <1>4, SubmitGeneratedDepth
<1>5. CASE Statistics
  BY <1>5, StatisticsKeepsDepth
<1>6. CASE CompleteIO
  BY <1>6, CompleteIODepth
<1>7. CASE (\E c \in Core : jobDone(c)) /\ Idle
  BY <1>7, JobKeepsDepth
<1>8. CASE StartCompletion /\ Idle
  BY <1>8, StartKeepsDepth
<1>9. CASE EndCompletion /\ Idle
  BY <1>9, EndKeepsDepth
<1>10. CASE load.kind = "driver" /\ Idle
  BY <1>10, DriverKeepsDepth DEF Idle
<1>11. CASE \E e \in DriverEvents : DriverFires(e)
  BY <1>11, DriverKeepsDepth DEF DriverFires, Idle
<1> QED BY <1>1, <1>2, <1>3, <1>4, <1>5, <1>6, <1>7, <1>8, <1>9, <1>10, <1>11
        DEF Simulation

(***************************************************************************)
(* At first nothing is outstanding, and the generator is about to begin.   *)
(***************************************************************************)
LEMMA InitDepth ==
  ASSUME StackInit, IdsSuffice
  PROVE  DepthInv
<1>1. /\ load \in Workloads /\ gen = Generator /\ ioQueue = <<>>
      /\ jobs = [c \in Core |-> <<>>] /\ completionQueue = {}
      /\ state = [r \in Requests |-> "new"] /\ simTick = 0
  BY DEF StackInit, DeviceInit
<1>2. /\ load.kind \in {"trace", "generator", "driver"} /\ load.period \in Nat
      /\ load.kind = "trace" => load \in TraceLoad
      /\ load.kind = "generator" => load \in GeneratorLoad
  BY <1>1, WorkloadAssumption
<1>3. LoadOK
  BY <1>1, <1>2 DEF LoadOK, GeneratorLoad, IdsSuffice, PositiveDepths
<1>4. PlacesInv(jobs, completionQueue, state)
  BY <1>1 DEF PlacesInv, States
<1>5. \A r \in Requests : ~Begun(state, r)
  BY <1>1 DEF Begun
<1>6. IOQueueInv(ioQueue, state, gen.depth)
  <2>1. \E S : ioQueue \in Seq(S)
    BY <1>1
  <2>2. Len(ioQueue) = 0 /\ gen.depth = 0
    BY <1>1 DEF Generator
  <2>3. InUse(state) = {}
    BY <1>1 DEF InUse
  <2> QED BY <2>1, <2>2, <2>3 DEF IOQueueInv
<1>7. ~Waits(eventQueue, SubmitEvent)
  <2>1. \A i \in 1 .. Len(eventQueue) :
          \/ eventQueue[i] = Entry(BeginEvent, 0)
          \/ eventQueue[i] = Entry(StatEvent, load.period)
    BY <1>2, InitEvents
  <2>2. /\ Entry(BeginEvent, 0).eid # SubmitEvent
        /\ Entry(StatEvent, load.period).eid # SubmitEvent
    BY HostEvents DEF Entry
  <2>3. Places(eventQueue, SubmitEvent) = {}
    BY <2>1, <2>2 DEF Places
  <2> QED BY <2>3 DEF Waits, ScheduledAt
<1>8. /\ gen.count = 0 /\ gen.depth = 0 /\ gen.pos = 0 /\ gen.bytes = 0
      /\ gen.sync = FALSE /\ gen.reserve = FALSE /\ gen.status = "running"
  BY <1>1 DEF Generator
<1>9. ASSUME load.kind = "trace" PROVE TraceInv(gen, eventQueue, state)
  <2>1. /\ load \in TraceLoad /\ Len(load.lines) \in Nat /\ load.maxIO \in Nat
        /\ load.depth \in Nat
    BY <1>2, <1>9, MatchedLemma DEF TraceLoad
  <2>2. MatchedUpTo(0) = 0
    BY <2>1, NoneMatched
  <2>3. TraceCore(gen, state)
    <3>1. PICK n \in Nat : n = Len(load.lines)
      BY <2>1
    <3>2. gen.pos \in 0 .. n /\ gen.count = MatchedUpTo(gen.pos)
      BY ONLY <1>8, <2>2, <3>1
    <3>3. gen.depth \in Nat /\ gen.depth <= gen.count
      BY ONLY <1>8
    <3>4. gen.reserve \in BOOLEAN /\ gen.sync \in BOOLEAN
      BY ONLY <1>8
    <3>5. load.maxIO # 0 => gen.count <= load.maxIO
      BY ONLY <1>8, <2>1
    <3>6. \A r \in Requests : r \notin 1 .. gen.count - 1 /\ ~Begun(state, r)
      BY ONLY <1>5, <1>8
    <3>7. gen.count = 0 /\ ~gen.reserve /\ gen.status # "ended"
      BY ONLY <1>8
    <3> QED BY ONLY <3>1, <3>2, <3>3, <3>4, <3>5, <3>6, <3>7 DEF TraceCore
  <2>4. Bound \in Nat
    BY <2>1 DEF Bound
  <2>5. TraceDepth(gen, eventQueue)
    BY <1>1, <1>7, <1>8, <2>4 DEF TraceDepth
  <2> QED BY <2>3, <2>5 DEF TraceInv
<1>10. ASSUME load.kind = "generator"
       PROVE  GenInv(gen, eventQueue, state, simTick)
  <2>1. Bound \in Nat
    BY <1>3, <1>10 DEF LoadOK, Bound
  <2>2. PICK b \in Nat : b = Bound
    BY <2>1
  <2>3. gen.depth \in Nat /\ gen.bytes \in Nat /\ gen.depth <= b
    BY ONLY <1>8
  <2>4. gen.reserve \in BOOLEAN /\ ~gen.reserve /\ gen.status # "ended"
    BY ONLY <1>8
  <2> QED BY ONLY <1>1, <1>5, <1>7, <1>8, <2>2, <2>3, <2>4 DEF GenInv
<1> QED BY <1>2, <1>3, <1>4, <1>6, <1>8, <1>9, <1>10 DEF DepthInv

LEMMA DepthInvariant ==
  ASSUME IdsSuffice
  PROVE  StackSpec => [](HostInv /\ DepthInv)
<1>1. StackInit => DepthInv
  BY InitDepth
<1>2. HostInv /\ HostInv' /\ DepthInv /\ [StackNext]_stackVars => DepthInv'
  <2> SUFFICES ASSUME HostInv, HostInv', DepthInv, [StackNext]_stackVars
               PROVE  DepthInv'
    OBVIOUS
  <2>1. CASE StackNext
    BY <2>1, SimulationKeepsDepth, OtherDriverKeepsDepth DEF StackNext
  <2>2. CASE UNCHANGED stackVars
    <3>1. UNCHANGED <<load, gen, ioQueue, numCores, jobs, completionQueue,
                      state, eventQueue, simTick>>
      BY <2>2 DEF stackVars, vars
    <3>2. simTick \in Nat
      BY DEF HostInv, HostState
    <3>3. SameHostEvents(eventQueue, eventQueue')
      BY <3>1 DEF SameHostEvents
    <3> QED BY <3>1, <3>2, <3>3, IdleKeepsDepth
  <2> QED BY <2>1, <2>2
<1> QED BY <1>1, <1>2, StepsKeep, PTL DEF StackSpec

-----------------------------------------------------------------------------
(***************************************************************************)
(* What the invariant says of what is outstanding, and of the end.         *)
(***************************************************************************)
LEMMA InvKeepsDepth ==
  ASSUME DepthInv, PositiveDepths
  PROVE  DepthKept
<1> SUFFICES ASSUME load.kind # "driver"
             PROVE  /\ gen.depth = Len(ioQueue) /\ gen.depth <= MaxDepth
                    /\ {ioQueue[i].id : i \in 1 .. Len(ioQueue)} =
                         {r \in Requests : state[r] \in {"queued", "device"}}
  BY DEF DepthKept
<1>1. /\ load.kind \in {"trace", "generator"} /\ PositiveDepth(load)
      /\ IOQueueInv(ioQueue, state, gen.depth)
  BY DEF DepthInv, LoadOK
<1>2. /\ gen.depth = Len(ioQueue)
      /\ {ioQueue[i].id : i \in 1 .. Len(ioQueue)} = InUse(state)
  BY <1>1 DEF IOQueueInv, Holds
<1>3. CASE load.kind = "trace"
  <2>1. load \in TraceLoad /\ TraceCore(gen, state) /\ TraceDepth(gen, eventQueue)
    BY <1>3 DEF DepthInv, LoadOK, TraceInv
  <2>2. ASSUME load.mode = "sync" PROVE gen.depth <= MaxDepth
    <3>1. gen.depth <= 1
      BY ONLY <2>1, <2>2 DEF TraceDepth
    <3>2. MaxDepth = 1
      BY ONLY <1>3, <2>2 DEF MaxDepth
    <3> QED BY ONLY <3>1, <3>2
  <2>3. ASSUME load.mode = "async" PROVE gen.depth <= MaxDepth
    <3>1. Bound = load.depth
      BY <1>1, <1>3, <2>3 DEF PositiveDepth, Bound
    <3>2. gen.depth <= Bound
      BY ONLY <2>1, <2>3 DEF TraceDepth
    <3>3. MaxDepth = load.depth
      BY ONLY <1>3, <2>3 DEF MaxDepth
    <3> QED BY ONLY <3>1, <3>2, <3>3
  <2>4. ASSUME load.mode \notin {"sync", "async"} PROVE gen.depth <= MaxDepth
    <3>1. /\ MatchedUpTo(gen.pos) \in 0 .. Cardinality(Matched)
          /\ Cardinality(Matched) \in Nat /\ Len(load.lines) \in Nat
          /\ Cardinality(Matched) <= Len(load.lines)
      BY <2>1, MatchedLemma
    <3>2. gen.depth \in Nat /\ gen.depth <= MatchedUpTo(gen.pos)
      BY <2>1 DEF TraceCore
    <3>3. gen.depth <= Len(load.lines)
      BY ONLY <3>1, <3>2
    <3>4. MaxDepth = Len(load.lines)
      BY ONLY <1>3, <2>4 DEF MaxDepth
    <3> QED BY ONLY <3>3, <3>4
  <2> QED BY <1>2, <2>2, <2>3, <2>4 DEF InUse
<1>4. CASE load.kind = "generator"
  <2>1. Bound = load.depth
    BY <1>1, <1>4 DEF PositiveDepth, Bound
  <2>2. gen.depth <= MaxDepth
    BY <1>4, <2>1 DEF DepthInv, GenInv, MaxDepth
  <2> QED BY <1>2, <2>2 DEF InUse
<1> QED BY <1>1, <1>3, <1>4

LEMMA InvEndsComplete ==
  ASSUME DepthInv
  PROVE  EndsComplete
<1> SUFFICES ASSUME gen.status = "ended"
             PROVE  /\ ioQueue = <<>>
                    /\ \A r \in Requests : state[r] \in {"new", "done"}
                    /\ Workload
  BY DEF EndsComplete
<1>1. /\ load.kind \in {"trace", "generator"} /\ LoadOK
      /\ PlacesInv(jobs, completionQueue, state)
      /\ IOQueueInv(ioQueue, state, gen.depth)
  BY DEF DepthInv
<1>2. gen.reserve /\ gen.depth = 0
  BY <1>1 DEF DepthInv, TraceInv, TraceCore, GenInv
<1>3. ioQueue = <<>> /\ InUse(state) = {}
  <2>1. PICK S : ioQueue \in Seq(S)
    BY <1>1 DEF IOQueueInv
  <2>2. Len(ioQueue) = 0
    BY <1>1, <1>2 DEF IOQueueInv
  <2> QED BY <1>1, <2>1, <2>2 DEF IOQueueInv, Holds
<1>4. \A r \in Requests : state[r] \in {"new", "done"}
  BY <1>1, <1>3 DEF PlacesInv, States, InUse
<1>5. CASE load.kind = "trace"
  <2>1. /\ load \in TraceLoad /\ 1 .. Len(load.lines) \subseteq Requests
        /\ AllSubmitted(state)
    BY <1>1, <1>2, <1>5 DEF LoadOK, DepthInv, TraceInv, TraceCore
  <2>2. CASE IclCount(state) > load.limit
    <3>1. Workload
      BY ONLY <1>5, <2>2 DEF Workload
    <3> QED BY ONLY <1>3, <1>4, <3>1
  <2>3. CASE \A r \in Requests : Begun(state, r) <=> r \in 1 .. Target
    <3>1. /\ Cardinality(Matched) \in Nat /\ Len(load.lines) \in Nat
          /\ Cardinality(Matched) <= Len(load.lines) /\ load.maxIO \in Nat
      BY <2>1, MatchedLemma DEF TraceLoad
    <3>2. Target \in Nat /\ Target <= Len(load.lines)
      BY <3>1 DEF Target, Smaller
    <3>3. PICK n \in Nat : n = Target
      BY <3>2
    <3>4. 1 .. n \subseteq Requests
      <4>1. 1 .. n \subseteq 1 .. Len(load.lines)
        BY ONLY <3>1, <3>2, <3>3
      <4> QED BY ONLY <2>1, <4>1
    <3>5. {r \in Requests : state[r] = "done"} = 1 .. n
      BY <1>4, <2>3, <3>3, <3>4 DEF Begun
    <3>6. Cardinality(1 .. n) = n
      BY FS_Interval
    <3>7. Cardinality({r \in Requests : state[r] = "done"}) = Target
      BY ONLY <3>3, <3>5, <3>6
    <3>8. Workload
      BY ONLY <1>5, <3>7 DEF Workload, Target
    <3> QED BY ONLY <1>3, <1>4, <3>8
  <2> QED BY <2>1, <2>2, <2>3, <1>3, <1>4 DEF AllSubmitted
<1>6. CASE load.kind = "generator"
  <2>1. AllGenerated(gen, simTick)
    BY <1>2, <1>6 DEF DepthInv, GenInv
  <2>2. Workload
    BY ONLY <1>6, <2>1 DEF Workload
  <2> QED BY ONLY <1>3, <1>4, <2>2
<1> QED BY <1>1, <1>3, <1>4, <1>5, <1>6

(***************************************************************************)
(* Block layer, generator and device agree on what is outstanding, and     *)
(* that never exceeds the queue depth (trace_replayer.cc:                  *)
(* rescheduleSubmit, iocallback; request_generator.cc: rescheduleSubmit;   *)
(* bil/entry.cc: submitIO, completion), for traces of any lines, any queue *)
(* depth but 0 and any latencies, whatever order the completions and the   *)
(* submit event come in.                                                   *)
(***************************************************************************)
THEOREM QueueDepthIsKept ==
  ASSUME IdsSuffice, PositiveDepths
  PROVE  StackSpec => []DepthKept
<1>1. DepthInv => DepthKept
  BY InvKeepsDepth
<1> QED BY <1>1, DepthInvariant, PTL

(***************************************************************************)
(* The generators call endCallback only when nothing is outstanding and    *)
(* the whole workload was submitted, so no latency is missing from the     *)
(* statistics of a run (trace_replayer.cc: parseLine, iocallback;          *)
(* request_generator.cc: rescheduleSubmit, iocallback).                    *)
(***************************************************************************)
THEOREM RunsEndComplete ==
  ASSUME IdsSuffice
  PROVE  StackSpec => []EndsComplete
<1>1. DepthInv => EndsComplete
  BY InvEndsComplete
<1> QED BY <1>1, DepthInvariant, PTL
=============================================================================
