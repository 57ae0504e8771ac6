\* One broker, crashes between sections only: every restart ends in service.
SPECIFICATION LiveSpec
CONSTANTS
    Brokers = {b1}
    Requests = {p1, p2, o1, o2}
    Production = {p1, p2}
    None = None
    Torn = Torn
    Starting = Starting
    MaxFaults = 2
    TornWrites = FALSE
PROPERTIES BrokerReturns
