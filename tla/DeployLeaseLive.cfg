\* No faults, but each broker may start, and recover, while the other one dispatches.
SPECIFICATION LiveSpec
CONSTANTS
    Brokers = {b1, b2}
    Requests = {p1, o1, o2}
    Production = {p1}
    None = None
    Torn = Torn
    Starting = Starting
    MaxFaults = 0
    TornWrites = FALSE
INVARIANTS LiveWaitersKept
PROPERTIES WriterServed
