\* A list_changed notification of a process that a call started after a stop.
SPECIFICATION Spec
CONSTANTS
    Nil = Nil
    Callers = {c}
    Restarters = {}
    Forced = {}
    Attempts = 2
    MaxSpawns = 2
    Keys = {tools, prompts}
    Supported = {tools, prompts}
    Announced = {{tools}, {prompts}}
    Refreshers = {f}
    MaxContent = 1
CHECK_DEADLOCK FALSE
INVARIANTS
    SnapshotOfItsGeneration
