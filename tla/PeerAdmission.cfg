SPECIFICATION PeerFairSpec
CONSTANTS
    a1 = a1
    a2 = a2
    b1 = b1
    p1 = p1
    p2 = p2
    winA = winA
    winB = winB
    w1 = w1
    w2 = w2
    k1 = k1
    NoStream = NoStream
    Streams = {a1, a2, b1}
    Peers = {p1, p2}
    Receivers = {a1, a2, b1, p1, p2}
    Windows = {winA, winB}
    Worlds = {w1, w2}
    Sessions = {k1}
    WindowOf <- MCWindowOf
    WorldOf <- MCWorldOf
    SessionOf <- MCSessionOf
    PeerWorld <- MCPeerWorld
    Cap = 1
CHECK_DEADLOCK FALSE
INVARIANTS
    PeerTypeOK
    NoClaimMissed
    NoGhostSession
    ReconnectStaysReachable
    ClaimHasAClient
    NewestClaimHolds
    WindowsAgree
PROPERTY DisplacedHearsOfIt
