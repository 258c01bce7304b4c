----------------------------- MODULE EventQueue ----------------------------
(***************************************************************************)
(* The event list of the simulation engine (sim/engine.cc): entries of an  *)
(* event and the tick it fires at, sorted by tick, at most one per event.  *)
(***************************************************************************)
EXTENDS Integers, SequencesExt

Entry(e, t) == [eid |-> e, tick |-> t]

\* Mutant: an event goes before those that are due at the same tick.
BeforeEquals(q, t) ==
  LET later == {i \in 1 .. Len(q) : q[i].tick >= t}
  IN  IF later = {} THEN Len(q) + 1 ELSE Min(later)

(***************************************************************************)
(* The place of a new entry: before the first one that is due later.       *)
(***************************************************************************)
InsertPosition(q, t) ==
  LET later == {i \in 1 .. Len(q) : q[i].tick > t}
  IN  IF later = {} THEN Len(q) + 1 ELSE Min(later)

Places(q, e) == {i \in 1 .. Len(q) : q[i].eid = e}

(***************************************************************************)
(* insertEvent: the new entry is inserted first, then the old one of the   *)
(* same event is erased.  Rescheduling to the same tick changes nothing.   *)
(***************************************************************************)
insertEvent(q, e, t) ==
  LET at    == InsertPosition(q, t)
      added == InsertAt(q, at, Entry(e, t))
      old   == Min(Places(q, e))
  IN  IF Places(q, e) = {} THEN added
      ELSE IF q[old].tick = t THEN q
      ELSE RemoveAt(added, IF old < at THEN old ELSE old + 1)

removeEvent(q, e) ==
  IF Places(q, e) = {} THEN q ELSE RemoveAt(q, Min(Places(q, e)))

(***************************************************************************)
(* isEventExist.                                                           *)
(***************************************************************************)
ScheduledAt(q, e, t) == \E i \in Places(q, e) : q[i].tick = t
=============================================================================
