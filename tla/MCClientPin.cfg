SPECIFICATION Spec
CONSTANTS
    Threads = {t1, t2}
    Abilities = {"f", "g"}
    LocalAbility = "f"
    ModeOf <- MCModeOf
    Verb = "verb"
    MaxVersion <- MCMaxVersion
    MaxOps = 3
    Callers = {t1, t2}
    MaxDispatches = 5
    MaxTransports = 4
    Chatters = {s1}
    Users = {"me"}
    Me = "me"
    MaxRequests = 0
    MaxArgs = 3
SYMMETRY Symmetry
INVARIANT PinKept
CHECK_DEADLOCK FALSE
