SPECIFICATION Spec
CONSTANTS
    None = None
    Attempts = 2
    SnapshotAttempts = 2
    MaxTurnAttempts = 1
    MaxFaults = 1
    MaxBumps = 0
    StoppedAs = "quiesced"
    Behaviours = {"die", "overlap", "workflow_cancel", "continuation", "quarantine"}
INVARIANTS
    TypeOK
    RecordedOutcomeIsReal
    WorkIsPublished
PROPERTIES
    OutcomeIsFinal
