SPECIFICATION FairSpec
CONSTANTS
    None = None
    Attempts = 2
    SnapshotAttempts = 2
    MaxTurnAttempts = 1
    MaxFaults = 2
    MaxBumps = 2
    StoppedAs = "quiesced"
    Behaviours = {"die", "lost_post", "outage", "deadline", "cancel_signal",
                  "lease_failure"}
INVARIANTS
    PostedAtMostOnce
    RecordedOutcomeIsReal
    WorkIsPublished
    BoundLeaseIsHeld
    AcceptedWasPosted
PROPERTIES
    PhaseNeverRegresses
    ImplementsLifecycle
    SessionSettles
