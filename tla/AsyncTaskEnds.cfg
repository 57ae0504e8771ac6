\* Two tasks that may depend on each other, two tool calls at a time, fair scheduling,
\* Python 3.10: a cancellation may be swallowed; a wait_all may expire.
SPECIFICATION LiveSpec
CONSTANTS
    Tasks = {t1, t2}
    Callers = {c1, c2}
    MaxConcurrent = 1
    MaxDeps = 1
    Callbacks = TRUE
    CancelMayBeSwallowed = TRUE
INVARIANTS NoLostWakeup
PROPERTIES KeepsPromise ResultsInjected TasksEnd ResultsSurface
