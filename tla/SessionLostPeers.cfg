\* Two creations whose syncs overlap beside the dead-peer watchdog, under
\* fairness. The ids run out, so the run stops.
CONSTANTS
    Sessions = {s1, s2}
    Users = {u1}
    Admins = {}
    IPs = {i1, i2}
    Resources = {}
    Requests = {h1, h2}
    Expirers = {}
    Reapers = {reaper}
    Main = main
    Ops = {"create", "age"}
    Faulty = {}
    Exclusive = {}
    NoUser = NoUser
    NoIP = NoIP
    NoSession = NoSession
SPECIFICATION FairSpec
INVARIANTS
    NoSharedAddress
PROPERTIES
    LostPeersHeal
CHECK_DEADLOCK FALSE
