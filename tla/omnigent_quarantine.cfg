SPECIFICATION FairSpec
CONSTANTS
    None = None
    Attempts = 2
    SnapshotAttempts = 2
    MaxTurnAttempts = 1
    MaxFaults = 0
    MaxBumps = 0
    StoppedAs = "canceled"
    Behaviours = {"deadline"}
PROPERTIES
    QuarantinedIsCleanedUp
