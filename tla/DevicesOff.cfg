SPECIFICATION Spec
CONSTANTS
    HostBits = 2
    Tasks = {t1}
    Users = {u1, u2}
    Nobody = Nobody
    DeviceLimit = 1
    MaxLimit = 2
    MaxOps = 2
    MaxMeter = 0
    MaxFaults = 0
SYMMETRY Symmetry
INVARIANT
    OffMeansOff
