--------------------------- MODULE MCPageMapping ---------------------------
EXTENDS PageMapping
=============================================================================
