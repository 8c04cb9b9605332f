SPECIFICATION Spec
CONSTANTS
    Payloads <- History
    Files = {"f0", "f1", "f2"}
    FirstVersion <- Shipped
    FirstFile = "f0"
    Channel = "stable"
    DownloadOrigin <- OurOrigin
    RolloutBucket = 40
    MaxPart = 3
INVARIANTS InstalledIsReleased StaysUpdatable
PROPERTY VersionOnlyGrows
CHECK_DEADLOCK FALSE
