----------------------------- MODULE DMAChannel -----------------------------
(***************************************************************************)
(* What the users of a DMA interface rely on (sim/dma_interface.hh): in    *)
(* each direction, requests are answered in the order in which they were   *)
(* made, each of them once, and each of them in the end.  A callback may   *)
(* make further requests.                                                  *)
(***************************************************************************)
EXTENDS Naturals, Sequences

VARIABLE pending   \* the requests that were not answered, per direction

Directions == {"read", "write"}

Init == pending = [d \in Directions |-> <<>>]

Requested(d, p) ==
  Len(p) <= Len(pending'[d]) /\ p = SubSeq(pending'[d], 1, Len(p))

Submit ==
  /\ pending' # pending
  /\ \A d \in Directions : Requested(d, pending[d])

Answer(d) ==
  /\ pending[d] # <<>>
  /\ \A e \in Directions :
       Requested(e, IF e = d THEN Tail(pending[d]) ELSE pending[e])

Next == Submit \/ \E d \in Directions : Answer(d)

\* Weak fairness of Answer(d), which is enabled when a request is pending.
Fairness(d) == []<>(pending[d] = <<>>) \/ []<><<Answer(d)>>_pending

\* Nothing is answered out of turn, twice, or without having been asked for.
Safety == Init /\ [][Next]_pending

Spec == Safety /\ \A d \in Directions : Fairness(d)

=============================================================================
