\* Two executions of a job at a time, a crash, fair scheduling; starting a turn ends.
SPECIFICATION LiveSpec
CONSTANTS
    Jobs = {j1}
    Runs = {r1, r2}
    MaxInstances = 1
    MaxCrashes = 1
INVARIANTS RunningIsTrue NoneForgotten
PROPERTIES KeepsPromise RunsEnd RepeatingJobsRun
