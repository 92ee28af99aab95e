\* Users who are unassigned, claims that an admin frees, a profile that is
\* deleted, and apps that are killed, under fairness.
CONSTANTS
    d1 = d1
    d2 = d2
    d3 = d3
    u1 = u1
    u2 = u2
    Devices = {d1, d2}
    Users = {u1, u2}
    UserOf <- TwoDevices
    Editors = {a1}
    TTL = 4
    Ops = {"connect", "disconnect", "kill", "unassign", "adminRelease", "delete"}
    Faulty = {}
    Ordered = {}
    NoDevice = NoDevice
    NoUser = NoUser
SPECIFICATION FairSpec
INVARIANTS
    OutlivesClaimByOneBeat
PROPERTIES
    UnassignedGoDown
    ClaimsAreFreed
