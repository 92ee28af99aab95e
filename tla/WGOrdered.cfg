\* One handler at a time and no release left over when a device connects.
CONSTANTS
    d1 = d1
    d2 = d2
    d3 = d3
    u1 = u1
    u2 = u2
    Devices = {d1, d2, d3}
    Users = {u1, u2}
    UserOf <- ThreeDevices
    Editors = {a1}
    TTL = 4
    Ops = {"connect", "disconnect", "tunnelDies", "assign", "update"}
    Faulty = {"connect"}
    Ordered = {"requests", "releases"}
    NoDevice = NoDevice
    NoUser = NoUser
SPECIFICATION Spec
INVARIANTS
    TypeOK
    OneDeviceUp
    ConfigOnlyWithClaim
    NotSharedOneUser
PROPERTIES
    ImplementsLock
