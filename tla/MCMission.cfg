SPECIFICATION Spec
CONSTANTS
    Refs = {"a.run", "b.run_2"}
    BaseOf <- MCBaseOf
    Foreign = foreign
    MaxSteps = 3
    MaxFacts = 3
    MaxEvents = 3
    MaxOther = 2
    PageLimit = 2
    MaxEmptyPages = 1
    Faults = {"unreachable", "stalled", "late", "disordered"}
INVARIANTS PlanOrdered PassedMeansRun DeliveredIsPrefix
PROPERTIES NextReturns
CHECK_DEADLOCK FALSE
