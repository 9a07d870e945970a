SPECIFICATION Spec
CONSTANTS
    Clients = {c1}
    Inodes = {1, 2, 3, 4}
    MaxChanges = 3
INVARIANT PeerBookSurvivesRestart
