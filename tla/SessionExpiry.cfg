\* The expiry watchdog beside one request, under fairness. The ids run out, so
\* the run stops.
CONSTANTS
    Sessions = {s1, s2}
    Users = {u1}
    Admins = {}
    IPs = {i1}
    Resources = {r1}
    Requests = {h1}
    Expirers = {expirer}
    Reapers = {}
    Main = main
    Ops = {"create", "terminate", "keepalive", "stale", "grants", "serverRemoveUser"}
    Faulty = {"removeRules", "sync"}
    Exclusive = {}
    NoUser = NoUser
    NoIP = NoIP
    NoSession = NoSession
SPECIFICATION FairSpec
PROPERTIES
    JobsEnd
    StaleSessionsEnd
CHECK_DEADLOCK FALSE
