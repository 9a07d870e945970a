SPECIFICATION RelaySpec
CONSTANTS
    p1 = p1
    p2 = p2
    Peers = {p1, p2}
    Clients = {}
    SavedPeers = {p1, p2}
    Offers <- MCOffers
    MaxConns = 1
    MaxTicks = 2
PROPERTIES
    UnreachableFlowStops
