SPECIFICATION Spec
CONSTANTS
    Clients = {c1, c2}
    Inodes = {1, 2, 3, 4, 5}
    MaxChanges = 3
INVARIANTS
    TypeOK
    AckedChangesSafe
PROPERTIES
    SoleSaveLands
    CrashRestoresSaved
