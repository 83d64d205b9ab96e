SPECIFICATION Spec
CONSTANTS
    p1 = p1
    p2 = p2
    Procs = {p1, p2}
    Gone = Gone
    a = a
    b = b
    c = c
    PeerLists = {a, b}
    NoPeers = NoPeers
    MaxRevision = 4
    MaxChanges = 2
    MaxFaults = 2
    MaxRefusals = 0
    Faults = {"api crash"}
INVARIANTS
    NeverReuseRevision
