SPECIFICATION Spec
CONSTANTS
    Names = {"main", "den"}
    MAIN = "main"
    NoRoom = NoRoom
    Listenable = {"wan"}
    Outside = {"wan"}
    DhtPeers = {"d"}
    MaxStarts = 2
    MaxRequests = 2
    MaxPending = 3
PROPERTY JoinerHasNoRole
