SPECIFICATION FairSpec
CONSTANTS
    p1 = p1
    p2 = p2
    Procs = {p1, p2}
    Gone = Gone
    a = a
    b = b
    c = c
    PeerLists = {a, b}
    NoPeers = NoPeers
    MaxRevision = 8
    MaxChanges = 2
    MaxFaults = 2
    MaxRefusals = 2
    Faults = {"api crash", "timeout", "agent failure", "agent crash", "power"}
INVARIANTS
    TypeOK
    AppliedRowIsReal
    NeverReuseRevisionIfCommitted
    AppliedRowMatchesAgent
PROPERTIES
    JournalFollowsDevicesIfOrderly
    Converges
