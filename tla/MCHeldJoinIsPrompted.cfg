SPECIFICATION Spec
CONSTANTS
    p1 = p1
    c1 = c1
    Peers = {p1}
    Clients = {c1}
    SavedPeers = {}
    Offers <- MCOffers
    MaxConns = 2
    MaxTicks = 3
INVARIANT
    HeldJoinIsPrompted
