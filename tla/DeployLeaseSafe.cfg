\* Two brokers, one production and two ordinary requests, two faults anywhere,
\* recoveries beside dispatches, up to the first robbery.
SPECIFICATION Spec
CONSTANTS
    Brokers = {b1, b2}
    Requests = {p1, o1, o2}
    Production = {p1}
    None = None
    Torn = Torn
    Starting = Starting
    MaxFaults = 2
    TornWrites = TRUE
SYMMETRY Symmetry
CONSTRAINT Unrobbed
INVARIANTS RunningUnderLease ProductionExclusive SuccessMeansExecuted
PROPERTIES CleanUntilRobbed ServesRecovered LeasesAsPromised
