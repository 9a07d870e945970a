SPECIFICATION FairSpec
CONSTANTS
    p1 = p1
    c1 = c1
    c2 = c2
    Peers = {p1}
    Clients = {c1, c2}
    SavedPeers = {p1}
    Offers <- MCOffers
    MaxConns = 2
    MaxTicks = 3
INVARIANTS
    TypeOK
    AdmissionHasCause
    PromptAnswerable
    FlowIsDriven
    WhitelistLands
PROPERTIES
    OnlyApprovalRevivesDeparted
    UnreachableFlowStops
    StaleTimersDrain
