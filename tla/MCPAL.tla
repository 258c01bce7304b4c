------------------------------- MODULE MCPAL --------------------------------
(***************************************************************************)
(* The times keep the order of the default configuration: a command is     *)
(* shorter than the shortest class of slots, a command and the smallest    *)
(* transfer are as long as it.                                             *)
(***************************************************************************)
EXTENDS PAL

Layout(c, w, d, p, allocation, superblock, multiplane, maxRequests) ==
  [sizes |-> [channel |-> c, package |-> w, die |-> d, plane |-> p],
   allocation |-> allocation, superblock |-> superblock,
   multiplane |-> multiplane, maxRequests |-> maxRequests]

\* Two dies that contend for a channel; super blocks over two dies of two
\* channels, with multi-plane operations; super blocks over the planes of a
\* die.
MCLayouts ==
  {Layout(1, 1, 2, 1, <<"channel", "package", "die", "plane">>, {}, FALSE, 3),
   Layout(2, 1, 2, 2, <<"plane", "die", "channel", "package">>,
          {"die", "plane"}, TRUE, 2),
   Layout(2, 2, 1, 2, <<"package", "channel", "die", "plane">>,
          {"plane"}, FALSE, 2)}

L(dma0, mem, dma1) == [dma0 |-> dma0, mem |-> mem, dma1 |-> dma1]
MCTiming ==
  [read |-> <<L(1, 2, 3), L(1, 3, 3)>>,
   write |-> <<L(3, 4, 1), L(3, 6, 1)>>,
   erase |-> <<L(1, 9, 1), L(1, 9, 1)>>]
MCRequests ==
  {[op |-> "read", page |-> 1], [op |-> "write", page |-> 2],
   [op |-> "erase", page |-> 1]}
====
