SPECIFICATION Spec
CONSTANTS
    Threads = {t1, t2}
    Abilities = {"f", "g"}
    LocalAbility = "f"
    ModeOf <- MCModeOf
    Verb = "verb"
    MaxVersion <- MCMaxVersion
    MaxOps = 3
    Callers = {t1, t2}
    MaxDispatches = 5
    MaxTransports = 4
    MaxArgs = 3
    Chatters = {t1, t2}
    Users = {"me", "ann", "bob"}
    Me = "me"
    MaxRequests = 3
SYMMETRY Symmetry
INVARIANTS RefreshIsSeen StreamsOutlivePool NothingOpenAfterClose ArgumentsAgree ValuesAgree OwnAgentCalled
CHECK_DEADLOCK FALSE
