SPECIFICATION FairSpec
CONSTANTS
    j1 = j1
    j2 = j2
    Jobs = {j1, j2}
    Mem <- Unit
    Budget = 1
    Bridge = {j2}
    Troubled = {j2}
    MaxSubmits = 2
    MaxFaults = 1
CHECK_DEADLOCK FALSE
INVARIANTS
    TypeOK
    BudgetHolds
    CleanedUpJobDoesNotRun
    RecordedOutcomeIsTheJobs
PROPERTIES
    DeclaredOutcomeIsReal
    OnlyStaleWritersReopen
    StartedJobEnds
