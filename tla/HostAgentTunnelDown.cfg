SPECIFICATION Spec
CONSTANTS
    h1 = h1
    h2 = h2
    Handlers = {h1, h2}
    Boot = Boot
    Nobody = Nobody
    Servers = {key, other}
    AgentKey = key
    PeerLists = {p, q, bad}
    ValidPeerLists = {p, q}
    Unknown = Unknown
    MaxRevision = 2
    Faults = {"crash", "reboot"}
INVARIANTS
    ServingTunnelIsUp
