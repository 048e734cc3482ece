\* Refreshes under calls, a forced restart, a stop and the death of processes.
SPECIFICATION Spec
CONSTANTS
    Nil = Nil
    Callers = {c}
    Restarters = {r}
    Forced = {}
    Attempts = 2
    MaxSpawns = 3
    Keys = {tools, prompts}
    Supported = {tools}
    Announced = {{tools}}
    Refreshers = {f}
    MaxContent = 1
CHECK_DEADLOCK FALSE
INVARIANTS
    SlotTypeOK
PROPERTIES
    SnapshotSpec
    CommitsCurrentGeneration
