----------------------------- MODULE MCLivePlay -----------------------------
EXTENDS LivePlay, TLC

CONSTANTS h1, h2, h3, procA, procB

\* Two heartbeats at once in one process, a third in another.
MCProcessOf == h1 :> procA @@ h2 :> procA @@ h3 :> procB
=============================================================================
