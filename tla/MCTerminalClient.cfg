SPECIFICATION FairSpec
CONSTANTS
    a1 = a1
    a2 = a2
    Addrs = {a1, a2}
    Bindable = {a1}
    Trim <- MCTrim
    StartAddr = a1
    RoomNames = {1, 2}
    MAIN = 1
    Statuses <- MCStatuses
INVARIANTS
    TypeOK
    SelectionOnAnEntry
PROPERTIES
    DefaultRoomOverridesOnlyARace
    StatusRecovers
