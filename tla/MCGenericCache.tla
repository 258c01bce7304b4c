--------------------------- MODULE MCGenericCache --------------------------
EXTENDS GenericCache

\* Two sets and three columns that do not line up, with the shipped settings,
\* and single deviations from them.
Shipped == [readCache |-> TRUE, writeCache |-> TRUE, prefetch |-> FALSE,
            superpage |-> FALSE, flush |-> FALSE, sets |-> 2, pages |-> 5]
OneSet == [Shipped EXCEPT !.sets = 1, !.pages = 3]
Variants ==
  {Shipped,
   [OneSet EXCEPT !.prefetch = TRUE],
   [Shipped EXCEPT !.superpage = TRUE],
   [OneSet EXCEPT !.flush = TRUE],
   [OneSet EXCEPT !.writeCache = FALSE, !.prefetch = TRUE, !.flush = TRUE]}
=============================================================================
