\* A device releases the profile between the two looks of another one's claim.
CONSTANTS
    d1 = d1
    d2 = d2
    d3 = d3
    u1 = u1
    u2 = u2
    Devices = {d1, d2}
    Users = {u1, u2}
    UserOf <- TwoDevices
    Editors = {}
    TTL = 4
    Ops = {"connect", "disconnect"}
    Faulty = {}
    Ordered = {"releases"}
    NoDevice = NoDevice
    NoUser = NoUser
SPECIFICATION Spec
INVARIANTS
    ConfigOnlyWithClaim
