SPECIFICATION Spec
CONSTANTS
    HostBits = 2
    Tasks = {t1}
    Users = {u1, u2}
    Nobody = Nobody
    DeviceLimit = 1
    MaxLimit = 2
    MaxOps = 1
    MaxMeter = 2
    MaxFaults = 0
SYMMETRY Symmetry
INVARIANT
    ManualPauseHolds
