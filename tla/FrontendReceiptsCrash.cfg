\* The nine phases of the release; any three faults.
SPECIFICATION LiveSpec
CONSTANTS
    Count = 9
    None = None
    MaxFaults = 3
    Resumes = TRUE
INVARIANTS JournalAccepted SealsLastExecution
PROPERTIES KeepsPromise RecoveryFreesLease
