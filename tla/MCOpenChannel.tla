--------------------------- MODULE MCOpenChannel ----------------------------
(* Two chunks of two pages of two blocks.                                  *)
EXTENDS OpenChannel

MCVectorLists == {<<0, 1>>, <<2, 3>>, <<0, 1, 2, 3>>, <<2, 3, 4>>, <<4, 5, 6, 7>>}
MCRanges == {<<0, 4>>, <<2, 2>>}
====
