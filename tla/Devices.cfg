SPECIFICATION Spec
CONSTANTS
    HostBits = 2
    Tasks = {t1, t2}
    Users = {u1, u2}
    Nobody = Nobody
    DeviceLimit = 1
    MaxLimit = 2
    MaxOps = 2
    MaxMeter = 1
    MaxFaults = 1
SYMMETRY Symmetry
INVARIANTS
    TypeOK
    
    AllocatorCovers
    DraftsAreExclusive
    NoLeakedAddress
    WgMatchesRows
    StoredKeyMatches
PROPERTIES
    RevokedIsFinal
