\* Requests and answers get lost at any point, and the service fails.
CONSTANTS
    d1 = d1
    d2 = d2
    d3 = d3
    u1 = u1
    u2 = u2
    Devices = {d1, d2}
    Users = {u1, u2}
    UserOf <- TwoDevices
    Editors = {}
    TTL = 4
    Ops = {"connect", "disconnect"}
    Faulty = {"net", "connect", "ipc"}
    Ordered = {}
    NoDevice = NoDevice
    NoUser = NoUser
SPECIFICATION Spec
PROPERTIES
    NoTakeover
