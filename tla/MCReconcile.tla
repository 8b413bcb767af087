---------------------------- MODULE MCReconcile ----------------------------
EXTENDS Reconcile

CONSTANTS gm, pl, t1, c1, c2

\* A Game Master and a player, or a player alone; the last change may be an
\* attack.
MCCasts == [author : {[c \in Changes |-> IF c = c1 THEN x ELSE pl] : x \in Clients},
            owner : {[t \in Tokens |-> pl]}, attacks : {{}, {c2}}]
MCTokenOf == [c \in Changes |-> t1]
\* c2's id sorts before c1's.
MCKeyOf == [c \in Changes |-> IF c = c2 THEN 0 ELSE 1]
=============================================================================
