SPECIFICATION FairSpec
CONSTANTS
    Peers <- MCPeers
    Callers <- MCCallers
    NoPeer = NoPeer
    Addrs <- MCAddrs
    NoAddr = NoAddr
    Place <- MCPlace
    Hop <- MCHop
    Parses <- MCParses
    Accepts <- MCParses
    Shareable <- MCShareable
    Books <- MCBooks
    Invites <- MCInvites
    Requests <- MCRequests
    MaxRequests = 2
    MaxScore = 1
    MaxConns = 1
INVARIANTS TypeOK RetriesAreDriven EntryInStep
PROPERTIES DialledPeerIsSurfaced Settles
