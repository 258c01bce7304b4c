----------------------------- MODULE MCDMALists -----------------------------
EXTENDS DMALists

\* Lists with and without pages to fetch, with and without a part to ignore.
Of(kind, total, dir, offset, length) ==
  [kind |-> kind, total |-> total, dir |-> dir, offset |-> offset,
   length |-> length, segments |-> <<>>]
OfSGL(segments, dir, offset, length) ==
  [kind |-> "sgl", total |-> 0, dir |-> dir, offset |-> offset,
   length |-> length, segments |-> segments]
D(n) == Chunk(n, FALSE)
X(n) == Chunk(n, TRUE)

MCTransfers ==
  { Of("prp", 2, "read", 0, 2), Of("prp", 5, "write", 0, 5),
    Of("prp", 8, "read", 0, 8), Of("prp", 16, "write", 0, 16),
    Of("cont", 7, "write", 3, 2), Of("queue", 6, "read", 3, 2),
    OfSGL(<<<<D(5)>>>>, "write", 0, 5),
    OfSGL(<<<<D(1), X(2)>>, <<X(1), D(2)>>>>, "read", 0, 6),
    OfSGL(<<<<X(1), X(1)>>>>, "write", 0, 2),
    OfSGL(<<<<X(2), D(2)>>>>, "write", 1, 2) }
=============================================================================
