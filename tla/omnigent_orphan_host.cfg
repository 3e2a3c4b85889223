SPECIFICATION Spec
CONSTANTS
    None = None
    Attempts = 2
    SnapshotAttempts = 2
    MaxTurnAttempts = 1
    MaxFaults = 0
    MaxBumps = 1
    StoppedAs = "quiesced"
    Behaviours = {"cancel_signal"}
INVARIANTS
    LeaseOutlivesHost
