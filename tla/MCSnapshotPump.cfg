SPECIFICATION FairSnapshotSpec
CONSTANTS
    Endpoints = {e1, e2}
    MaxSnapshots = 5
INVARIANTS
    OnePumpForPending
    StopDrains
    PendingIsNewer
PROPERTIES
    SnapshotTaken
