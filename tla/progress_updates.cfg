SPECIFICATION FairSpec
CONSTANTS
    None = None
    p1 = p1
    p2 = p2
    w1 = w1
    w2 = w2
    w3 = w3
    g1 = g1
    g2 = g2
    o1 = o1
    o2 = o2
    c1 = c1
    c2 = c2
    c3 = c3
    c4 = c4
    Profiles = {p1}
    Groups = {g1}
    Priority <- OnePriority
    Workflows = {w1}
    Owners = {o1, o2}
    Parent <- Parents
    Target <- Targets
    Maintenance = {o2}
    Calls = {c1, c3}
    CallOwner <- RetriedCall
    GroupOf <- NoGroup
    Payloads <- AnyOne
    InitialCatalogue <- AllReady
    Edits = {}
    Expirable = {}
    Behaviours = {"terminate", "save_failure", "verify_failure"}
INVARIANTS
    HoldersInLedger
PROPERTIES
    TerminalLeaseReclaimed
