\* One job at a time: requests that create and end sessions, every way in which
\* a user gets or loses the server, a failure of each call that has a recovery
\* path, crashes and restarts. The admin does not edit bundles.
CONSTANTS
    Sessions = {s1, s2, s3}
    Users = {u1}
    Admins = {u1}
    IPs = {i1, i2}
    Resources = {r1}
    Requests = {h1}
    Expirers = {}
    Reapers = {}
    Main = main
    Ops = {"create", "terminate", "removeServer", "disable", "deleteUser", "addServer", "serverRemoveUser", "setAdmin", "crash"}
    Faulty = {"alloc", "insert", "addPeer", "addRules", "endpoints", "removePeer", "release"}
    Exclusive = {"create", "rollback", "requested", "user_terminated", "access_removed", "delete_user", "shutdown", "expired", "dead_peer"}
    NoUser = NoUser
    NoIP = NoIP
    NoSession = NoSession
SPECIFICATION Spec
SYMMETRY Symmetry
INVARIANTS
    TypeOK
    InterfaceMatchesRows
    RowsHoldTheirAddress
    RulesMatchSessions
    HistoryInOrder
    SessionsHaveAccess
