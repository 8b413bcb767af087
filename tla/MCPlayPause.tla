---------------------------- MODULE MCPlayPause ----------------------------
EXTENDS PlayPause, TLC

CONSTANTS p1, p2, l1, l2, r1, r2, r3, a1, d1, act1, act2

\* r2 is a retry of r1.
MCActionOf == [r \in Raisers |-> IF r = r3 THEN act2 ELSE act1]
=============================================================================
