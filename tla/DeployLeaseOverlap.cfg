\* One broker restarts while the other one is dispatching.
SPECIFICATION Spec
CONSTANTS
    Brokers = {b1, b2}
    Requests = {o1, o2}
    Production = {}
    None = None
    Torn = Torn
    Starting = Starting
    MaxFaults = 1
    TornWrites = FALSE
PROPERTIES ReleaseAfterCleanup
