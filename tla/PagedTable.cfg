\* The three logs; pages of one row, of one or two in the history.
CONSTANTS
    Tables = {"denials", "audit", "history"}
    MaxRows = 2
    MaxAge = 1
    MaxLoads = 2
    Sizes = {1, 2}
    PageSize = 1
SPECIFICATION Spec
INVARIANTS
    TypeOK
    ShowsWhatItSays
PROPERTIES
    WayBack
CHECK_DEADLOCK FALSE
