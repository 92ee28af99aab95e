\* Every page, two rows; on two pages that poll others change the data too.
CONSTANTS
    Items = {i1, i2}
    Pages = {"people", "roles", "resources", "bundles", "servers", "live", "access", "config", "devices", "openvpn", "wireguard", "stored", "passkeys", "sessions", "overview", "health"}
    Crowded = {"live", "health"}
    MaxLoads = 2
    MaxCalls <- CallsOn
SPECIFICATION Spec
SYMMETRY ItemsAreAlike
INVARIANTS
    TypeOK
    Fresh
    DrawerIsFresh
    UpdatesFilledRow
CHECK_DEADLOCK FALSE
