SPECIFICATION Spec
CONSTANTS
    Providers = {p1, p2}
    MaxChanges = 2
    Chunks = 2
    Timeout = 2
    MaxInstalls = 2
    Bindings = {b1, b2}
    LeaseTicks = 9
    Interval = 3
    RenewTimeout = 2
    Libraries = {"numbers", "images"}
    HomeOf <- MCHomeOf
    Aliases <- MCAliases
    Versions = {1, 2}
    MaxCommands = 4
INVARIANTS OnboardedAsOne DeployedIsWhole BoundIsLeased ListedIsOwn ListedIsWhole
PROPERTY InstallReturns
CHECK_DEADLOCK FALSE
