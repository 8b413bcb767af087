--------------------------- MODULE MCWorldStream ---------------------------
EXTENDS WorldStream

CONSTANTS s1, s2
=============================================================================
