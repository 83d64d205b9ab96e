SPECIFICATION FairSpec
CONSTANTS
    HostBits = 2
    Tasks = {t1}
    Users = {u1}
    Nobody = Nobody
    DeviceLimit = 1
    MaxLimit = 2
    MaxOps = 2
    MaxMeter = 1
    MaxFaults = 1
PROPERTY
    EnforcementHappens
