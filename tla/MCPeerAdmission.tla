-------------------------- MODULE MCPeerAdmission --------------------------
(* Three streams of two windows in two worlds (a1 and a2 are the same window, *)
(* which takes the table back from b1) and two peer subscriptions of one      *)
(* session id (a reconnect) in the first world.                               *)
EXTENDS PeerAdmission, TLC

CONSTANTS a1, a2, b1, p1, p2, winA, winB, w1, w2, k1

MCWindowOf == a1 :> winA @@ a2 :> winA @@ b1 :> winB
MCWorldOf == a1 :> w1 @@ a2 :> w1 @@ b1 :> w2
MCSessionOf == [p \in Peers |-> k1]
MCPeerWorld == [p \in Peers |-> w1]
=============================================================================
