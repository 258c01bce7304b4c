----------------------------- MODULE FlashStore -----------------------------
(***************************************************************************)
(* What the flash translation layer promises to the cache layer: a set of  *)
(* live logical pages, and calls that take time.  The call of a write      *)
(* makes a page live, a trim or a format ends that, and the work a call    *)
(* does before it returns (allocation, garbage collection, erases) leaves  *)
(* the live pages alone.  A call may also never return (a panic).          *)
(***************************************************************************)
CONSTANTS
  Pages,    \* the logical pages
  Ranges    \* the ranges a format may clear

VARIABLES
  live,     \* the pages that hold data
  ready     \* no call is in progress

StoreInit == live = {} /\ ready = TRUE

StoreWrite(l) == ready = TRUE /\ live' = live \cup {l} /\ ready' = FALSE

StoreTrim(l) == ready = TRUE /\ live' = live \ {l} /\ ready' = TRUE

StoreFormat(r) == ready = TRUE /\ live' = live \ r /\ ready' \in BOOLEAN

StoreWork == live' = live /\ ready' \in BOOLEAN

StoreNext ==
  \/ \E l \in Pages : StoreWrite(l) \/ StoreTrim(l)
  \/ \E r \in Ranges : StoreFormat(r)
  \/ StoreWork

StoreSpec == StoreInit /\ [][StoreNext]_<<live, ready>>
=============================================================================
