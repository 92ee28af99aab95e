\* Two requests and the main goroutine interleaved at every call, with
\* failures, shutdowns and crashes.
CONSTANTS
    Sessions = {s1, s2}
    Users = {u1}
    Admins = {}
    IPs = {i1, i2}
    Resources = {}
    Requests = {h1, h2}
    Expirers = {}
    Reapers = {}
    Main = main
    Ops = {"create", "terminate", "sigterm", "crash"}
    Faulty = {"insert", "addPeer", "deleteRow", "clearPeers"}
    Exclusive = {}
    NoUser = NoUser
    NoIP = NoIP
    NoSession = NoSession
SPECIFICATION Spec
SYMMETRY Symmetry
INVARIANTS
    NoLeakedAddress
    NoLeakedKey
PROPERTIES
    OldPeersStayAway
