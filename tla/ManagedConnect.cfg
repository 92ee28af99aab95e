\* Two servers, two calls and two approvals, disconnecting and logging out. The
\* calls run out, so the run stops.
CONSTANTS
    Servers = {s1, s2}
    NoServer = NoServer
    MaxCalls = 2
    MaxRuns = 2
    MaxLoads = 1
    SecondFactors = {"push", "totp"}
    UserDoes = {"disconnect", "logout"}
SPECIFICATION Spec
INVARIANTS
    TypeOK
    NoStrayTunnel
    OneLiveRun
    WaitingIsForTheNamedServer
PROPERTIES
    Converges
    PendingEnds
CHECK_DEADLOCK FALSE
