\* The three pages, the wizard from its first step; two push requests, two
\* calls in flight.
CONSTANTS
    Pages = {"login", "sheet", "wizard"}
    MaxRequests = 2
    MaxCalls = 2
    MaxSaves = 2
SPECIFICATION SetupSpec
CONSTRAINT FewAtOnce
INVARIANTS
    SetupTypeOK
    PollsHeldRequest
    TokenTakesApproval
    OneSignInHeard
    RestartRedoesNothing
CHECK_DEADLOCK FALSE
