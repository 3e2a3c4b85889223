SPECIFICATION FairSpec
CONSTANTS
    None = None
    p1 = p1
    p2 = p2
    w1 = w1
    w2 = w2
    w3 = w3
    g1 = g1
    g2 = g2
    o1 = o1
    o2 = o2
    c1 = c1
    c2 = c2
    c3 = c3
    c4 = c4
    Profiles = {p1}
    Groups = {g1}
    Priority <- OnePriority
    Workflows = {w1, w2}
    Owners = {}
    Parent <- NoFunction
    Target <- NoFunction
    Maintenance = {}
    Calls = {}
    CallOwner <- NoFunction
    GroupOf <- NoGroup
    Payloads <- AnyOne
    InitialCatalogue <- AllReady
    Edits = {}
    Expirable = {}
    Behaviours = {"rerequest", "terminate", "crash", "remove_failure", "shutdown"}
PROPERTIES
    TerminalLeaseReclaimed
    WaiterServed
    ShutdownHonoured
